---- MODULE Spec2Model ----
(***************************************************************************)
(* Storage client layer of the Agama web front-end                         *)
(* (src/web/src/client/storage.js): DevicesManager, ProposalManager,       *)
(* DASDManager, ISCSIManager.                                              *)
(*                                                                         *)
(* Four specifications share the module:                                   *)
(*   SpecProxy    - concurrent callers of the lazy proxy getters of        *)
(*                  DASDManager and ISCSIManager;                          *)
(*   SpecProposal - ProposalManager reads (getAvailableDevices,            *)
(*                  getVolumeTemplates, getResult, getData) over an        *)
(*                  enumerated device tree;                                *)
(*   SpecOps      - one caller running the remote operations (calculate,   *)
(*                  discover, login, logout, delete, probe, format, ...);  *)
(*   SpecPayload  - the operations that build a wire payload (calculate,   *)
(*                  discover, login) over all combinations of present,     *)
(*                  undefined and null fields.                             *)
(***************************************************************************)
EXTENDS Integers, Sequences, FiniteSets, TLC

(***************************************************************************)
(* Bounds                                                                  *)
(***************************************************************************)
NumCallers == 2
MaxCalls == 3
MaxObjects == 2
MaxPaths == 3
MaxVolumes == 1
MaxDasd == 2
MaxFacetObjects == 1
MaxJobs == 2
MaxSubs == 2
MaxNotes == 2

(***************************************************************************)
(* JavaScript values. undefined and null are distinct values; every other  *)
(* value carries its type so that values of different types compare        *)
(* unequal instead of being confused.                                      *)
(***************************************************************************)
Undefined == [js |-> "undefined"]
Null == [js |-> "null"]
Str(s) == [js |-> "string", s |-> s]
Bool(b) == [js |-> "boolean", b |-> b]
Num(n) == [js |-> "number", n |-> n]
Arr(a) == [js |-> "array", a |-> a]

\* A cockpit D-Bus variant { t: <signature>, v: <value> }
Variant(t, v) == [t |-> t, v |-> v]

(***************************************************************************)
(* D-Bus names of storage.js                                               *)
(***************************************************************************)
STORAGE_JOB_IFACE == "org.opensuse.Agama.Storage1.Job"
DASD_DEVICE_IFACE == "org.opensuse.Agama.Storage1.DASD.Device"
DASD_MANAGER_IFACE == "org.opensuse.Agama.Storage1.DASD.Manager"
ISCSI_INITIATOR_IFACE == "org.opensuse.Agama.Storage1.ISCSI.Initiator"
ISCSI_NODE_IFACE == "org.opensuse.Agama.Storage1.ISCSI.Node"

Managers == {"dasd", "iscsi"}

\* The keys of this.proxies of DASDManager and of ISCSIManager.
ProxyKeys == {"jobs", "devices", "dasdManager", "iscsiInitiator", "iscsiNodes"}

\* Keys set up with client().proxies(iface, namespace): dynamic collections.
CollectionKeys == {"jobs", "devices", "iscsiNodes"}

ManagerOf(k) == IF k \in {"jobs", "devices", "dasdManager"} THEN "dasd" ELSE "iscsi"

IfaceOf(k) ==
  CASE k = "jobs" -> STORAGE_JOB_IFACE
    [] k = "devices" -> DASD_DEVICE_IFACE
    [] k = "dasdManager" -> DASD_MANAGER_IFACE
    [] k = "iscsiInitiator" -> ISCSI_INITIATOR_IFACE
    [] k = "iscsiNodes" -> ISCSI_NODE_IFACE

Callers == 1..NumCallers

VARIABLES
  mclient,    \* this._client of each manager: 0 while unset, else the handle
  clients,    \* number of DBusClient objects constructed by each manager
  proxies,    \* this.proxies of the managers: key -> 0 (unset) or a handle
  handles,    \* the proxy/proxies objects created so far: handle h is for handles[h]
  tasks,      \* the running calls of the proxy getters, one slot per caller
  calls,      \* number of getter calls started
  firstRet,   \* key -> the handle the first successful getter call returned
  dbusObjects,      \* the service's exported objects, in enumeration order
  availDevices,     \* the calculator's AvailableDevices property (paths)
  proposalExported, \* whether the service exports the proposal object
  calcProxy,        \* this.proxies.proposalCalculator: the constructor's promise
  pcall,            \* the ProposalManager method the caller called
  ppc,              \* where that call is suspended, or how it ended
  systemDevices,    \* const systemDevices of getAvailableDevices
  pret,             \* the value the call resolved with
  data,             \* the locals of getData filled so far
  log,              \* console.log output of the call: the paths not found
  proxyFailed,      \* the call's client.proxy(PROPOSAL_IFACE) was rejected
  oname,          \* the remote operation the caller called
  opc,            \* where that call is suspended, or how it ended
  oargs,          \* its arguments
  payload,        \* the wire payload it built before its first await
  oacq,           \* how it gets its proxy: "promise", "cached", "setup" or "fresh"
  osetup,         \* the handle of the setup it awaits, 0 if none
  sent,           \* the remote method invocations the call has issued
  remote,         \* the state of the issued invocation
  remoteRet,      \* the code the remote method returned
  oret,           \* the value the call resolved with
  acquireFailed,  \* the call's proxy acquisition was rejected
  fobjects,       \* the managed objects a call of DevicesManager.getDevices gets
  fdevices,       \* the devices that call resolved with, undefined before it
  jobsColl,       \* the job objects of the jobs collection, as the proxies mirror them
  dasdColl,       \* the device objects of the DASD devices collection
  dname,          \* the DASDManager read the caller called: getJobs or getDevices
  dpc,            \* where that call is suspended, or how it ended
  dsetup,         \* the handle of the setup it awaits, 0 if none
  probeState,     \* the remote Probe of the call: none, running, returned or failed
  dret,           \* the value the call resolved with
  watched,        \* the collection whose subscriptions and notifications are followed
  nsubs,          \* number of subscription calls made; the n-th call passes handler n
  pending,        \* the awaits that have not settled yet
  listeners,      \* the listeners added with addEventListener, in order
  notes,          \* the notifications that arrived from the transport, in order
  dispatched,     \* how many of them the event loop has dispatched
  handled,        \* the handler calls made, in order
  rtasks,         \* the getResult calls, one slot per caller
  racquired,      \* number of client.proxy(PROPOSAL_IFACE) calls made
  acquisitions,   \* the client.proxy calls for the calculator and the storage object
  sproxies,       \* proxies of ProposalManager and StorageBaseClient: key -> acquisition
  stasks,         \* the calls of the methods that await those proxies, per caller
  scalls,         \* number of such calls started
  depHandlers,    \* number of handlers registered with onDeprecate
  changed,        \* the property-change notifications of the storage object, in order
  depCalls,       \* the calls of onDeprecate handlers made, in order
  unregistered,   \* the listeners removed by their unregister closure, and when
  heap,           \* the array objects of the cached proposal proxy, by reference
  candRef,        \* the reference its CandidateDevices property holds
  returned        \* the value objects handed to callers, as seen when returned

varsProxy == <<mclient, clients, proxies, handles, tasks, calls, firstRet>>

varsProposal ==
  <<dbusObjects, availDevices, proposalExported, calcProxy, pcall, ppc,
    systemDevices, pret, data, log, proxyFailed>>

varsOps ==
  <<oname, opc, oargs, payload, oacq, osetup, sent, remote, remoteRet, oret, acquireFailed>>

varsBuild == <<fobjects, fdevices>>

varsDasd == <<jobsColl, dasdColl, dname, dpc, dsetup, probeState, dret>>

varsEvents == <<watched, nsubs, pending, listeners, notes, dispatched, handled>>

varsResult == <<rtasks, racquired>>

varsShared == <<acquisitions, sproxies, stasks, scalls>>

varsDeprecate == <<depHandlers, changed, depCalls>>

varsUnregister == <<unregistered>>

varsCopies == <<heap, candRef, returned>>

varsMore ==
  <<varsBuild, varsDasd, varsEvents, varsResult, varsShared, varsDeprecate, varsUnregister, varsCopies>>

vars == <<varsProxy, varsProposal, varsOps, varsMore>>

IdleTask ==
  [pc |-> "idle", key |-> "jobs", h |-> 0, ret |-> 0, setup |-> FALSE,
   inflight |-> 0, first |-> 0]

InitManagers ==
  /\ mclient = [m \in Managers |-> 0]
  /\ clients = [m \in Managers |-> 0]
  /\ proxies = [k \in ProxyKeys |-> 0]
  /\ handles = <<>>

InitGetters ==
  /\ tasks = [c \in Callers |-> IdleTask]
  /\ calls = 0
  /\ firstRet = [k \in ProxyKeys |-> 0]

(***************************************************************************)
(* client(): the connection handle is created on first use.                *)
(***************************************************************************)
\* Faulty variant: every call of client() constructs a DBusClient.
clientCreatesAlways(m) == TRUE

\* if (!this._client)
clientCreates(m) == mclient[m] = 0

client(m) ==
  /\ mclient' = [mclient EXCEPT ![m] = IF clientCreates(m) THEN 1 ELSE @]
  /\ clients' = [clients EXCEPT ![m] = IF clientCreates(m) THEN @ + 1 ELSE @]

\* The handle of a setup for key k that is awaited by some caller, 0 if none.
InFlight(k) ==
  LET S == {tasks[c].h : c \in {d \in Callers : tasks[d].pc = "awaiting" /\ tasks[d].key = k}}
  IN IF S = {} THEN 0 ELSE CHOOSE h \in S : \A g \in S : h <= g

(***************************************************************************)
(* jobsProxy / devicesProxy / managerProxy / iscsiInitiatorProxy /         *)
(* iscsiNodesProxy, up to the await:                                       *)
(*   if (!this.proxies.k) this.proxies.k = await this.client().proxy(...)  *)
(* The test of this.proxies.k is made when the call starts; the assignment *)
(* is made when the awaited promise resolves.                              *)
(***************************************************************************)
GetterNeedsSetup(k) == proxies[k] = 0

GetterCall(c, k) ==
  /\ tasks[c].pc = "idle"
  /\ calls < MaxCalls
  /\ calls' = calls + 1
  /\ IF GetterNeedsSetup(k)
       THEN /\ client(ManagerOf(k))
            /\ handles' = Append(handles, k)
            /\ tasks' = [tasks EXCEPT ![c] =
                 [pc |-> "awaiting", key |-> k, h |-> Len(handles) + 1, ret |-> 0,
                  setup |-> TRUE, inflight |-> InFlight(k), first |-> firstRet[k]]]
            /\ UNCHANGED <<proxies, firstRet, varsProposal, varsMore, varsOps>>
       ELSE /\ tasks' = [tasks EXCEPT ![c] =
                 [pc |-> "done", key |-> k, h |-> 0, ret |-> proxies[k],
                  setup |-> FALSE, inflight |-> InFlight(k), first |-> firstRet[k]]]
            /\ UNCHANGED <<mclient, clients, proxies, handles, firstRet, varsProposal, varsMore, varsOps>>

\* The awaited setup resolves: the getter stores the proxy and returns it.
GetterResolve(c) ==
  /\ tasks[c].pc = "awaiting"
  /\ proxies' = [proxies EXCEPT ![tasks[c].key] = tasks[c].h]
  /\ tasks' = [tasks EXCEPT ![c].pc = "done", ![c].ret = tasks[c].h]
  /\ firstRet' = [firstRet EXCEPT ![tasks[c].key] = IF @ = 0 THEN tasks[c].h ELSE @]
  /\ UNCHANGED <<mclient, clients, handles, calls, varsProposal, varsMore, varsOps>>

\* Faulty variant: the failed setup's handle is stored all the same.
GetterRejectStoring(c) ==
  /\ tasks[c].pc = "awaiting"
  /\ proxies' = [proxies EXCEPT ![tasks[c].key] = tasks[c].h]
  /\ tasks' = [tasks EXCEPT ![c].pc = "rejected"]
  /\ UNCHANGED <<mclient, clients, handles, calls, firstRet, varsProposal, varsMore, varsOps>>

\* The awaited setup rejects: nothing is stored, the rejection reaches the caller.
GetterReject(c) ==
  /\ tasks[c].pc = "awaiting"
  /\ tasks' = [tasks EXCEPT ![c].pc = "rejected"]
  /\ UNCHANGED <<mclient, clients, proxies, handles, calls, firstRet, varsProposal, varsMore, varsOps>>

\* The caller has taken the result of its call and may call again.
GetterReturn(c) ==
  /\ tasks[c].pc \in {"done", "rejected"}
  /\ tasks' = [tasks EXCEPT ![c] = IdleTask]
  /\ UNCHANGED <<mclient, clients, proxies, handles, calls, firstRet, varsProposal, varsMore, varsOps>>

(***************************************************************************)
(* Strings that the code takes apart are sequences of characters.          *)
(* String.prototype.split("/"), Array.prototype.pop, startsWith.           *)
(***************************************************************************)
RECURSIVE Split(_)
Split(s) ==
  IF s = <<>> THEN << <<>> >>
  ELSE LET r == Split(Tail(s))
       IN IF Head(s) = "/" THEN << <<>> >> \o r
          ELSE << <<Head(s)>> \o Head(r) >> \o Tail(r)

Pop(a) == a[Len(a)]

StartsWith(s, p) == Len(p) <= Len(s) /\ SubSeq(s, 1, Len(p)) = p

\* Boolean coercion of a value, as used by if (!x) and by filter(d => d).
Truthy(x) == x # Undefined /\ x # Null

\* Record update: the fields of g are assigned on top of d.
Assign(d, g) ==
  [f \in DOMAIN d \cup DOMAIN g |-> IF f \in DOMAIN g THEN g[f] ELSE d[f]]

(***************************************************************************)
(* DevicesManager.getDevices                                               *)
(***************************************************************************)
\* "/org/opensuse/Agama/Storage1/system", shortened to "/s".
STORAGE_SYSTEM_NAMESPACE == <<"/", "s">>

DRIVE_IFACE == "org.opensuse.Agama.Storage1.Drive"
RAID_IFACE == "org.opensuse.Agama.Storage1.RAID"
MD_IFACE == "org.opensuse.Agama.Storage1.MD"
BLOCK_IFACE == "org.opensuse.Agama.Storage1.Block"
PTABLE_IFACE == "org.opensuse.Agama.Storage1.PartitionTable"

addDriveProperties(device, dbusProperties) ==
  Assign(device,
    [type |-> dbusProperties.Type.v,
     vendor |-> dbusProperties.Vendor.v,
     model |-> dbusProperties.Model.v,
     driver |-> dbusProperties.Driver.v,
     bus |-> dbusProperties.Bus.v,
     transport |-> dbusProperties.Transport.v,
     sdCard |-> dbusProperties.Info.v.SDCard.v,
     dellBOSS |-> dbusProperties.Info.v.DellBOSS.v])

addRAIDProperties(device, raidProperties) ==
  Assign(device, [devices |-> raidProperties.Devices.v])

\* Faulty variant: the MD facet leaves the type of the earlier facets.
addMDPropertiesKeepType(device, mdProperties) ==
  Assign(device,
    [level |-> mdProperties.Level.v,
     uuid |-> mdProperties.UUID.v,
     members |-> mdProperties.Members.v])

addMDProperties(device, mdProperties) ==
  Assign(device,
    [type |-> "md",
     level |-> mdProperties.Level.v,
     uuid |-> mdProperties.UUID.v,
     members |-> mdProperties.Members.v])

\* Faulty variant: the block facet also writes the type.
addBlockPropertiesTyped(device, blockProperties) ==
  Assign(device,
    [type |-> "block",
     active |-> blockProperties.Active.v,
     name |-> blockProperties.Name.v,
     size |-> blockProperties.Size.v,
     systems |-> blockProperties.Systems.v,
     udevIds |-> blockProperties.UdevIds.v,
     udevPaths |-> blockProperties.UdevPaths.v])

addBlockProperties(device, blockProperties) ==
  Assign(device,
    [active |-> blockProperties.Active.v,
     name |-> blockProperties.Name.v,
     size |-> blockProperties.Size.v,
     systems |-> blockProperties.Systems.v,
     udevIds |-> blockProperties.UdevIds.v,
     udevPaths |-> blockProperties.UdevPaths.v])

addPtableProperties(device, ptableProperties) ==
  Assign(device, [partitionTable |-> [type |-> ptableProperties.Type.v]])

\* Faulty variant: the device starts without the empty type.
buildDeviceUntyped(path, dbusDevice) ==
  LET d0 == [sid |-> Pop(Split(path))]
      d1 == IF DRIVE_IFACE \in DOMAIN dbusDevice
              THEN addDriveProperties(d0, dbusDevice[DRIVE_IFACE]) ELSE d0
      d2 == IF RAID_IFACE \in DOMAIN dbusDevice
              THEN addRAIDProperties(d1, dbusDevice[RAID_IFACE]) ELSE d1
      d3 == IF MD_IFACE \in DOMAIN dbusDevice
              THEN addMDProperties(d2, dbusDevice[MD_IFACE]) ELSE d2
      d4 == IF BLOCK_IFACE \in DOMAIN dbusDevice
              THEN addBlockProperties(d3, dbusDevice[BLOCK_IFACE]) ELSE d3
  IN IF PTABLE_IFACE \in DOMAIN dbusDevice
       THEN addPtableProperties(d4, dbusDevice[PTABLE_IFACE]) ELSE d4

buildDevice(path, dbusDevice) ==
  LET d0 == [type |-> "", sid |-> Pop(Split(path))]
      d1 == IF DRIVE_IFACE \in DOMAIN dbusDevice
              THEN addDriveProperties(d0, dbusDevice[DRIVE_IFACE]) ELSE d0
      d2 == IF RAID_IFACE \in DOMAIN dbusDevice
              THEN addRAIDProperties(d1, dbusDevice[RAID_IFACE]) ELSE d1
      d3 == IF MD_IFACE \in DOMAIN dbusDevice
              THEN addMDProperties(d2, dbusDevice[MD_IFACE]) ELSE d2
      d4 == IF BLOCK_IFACE \in DOMAIN dbusDevice
              THEN addBlockProperties(d3, dbusDevice[BLOCK_IFACE]) ELSE d3
  IN IF PTABLE_IFACE \in DOMAIN dbusDevice
       THEN addPtableProperties(d4, dbusDevice[PTABLE_IFACE]) ELSE d4

\* Object.keys(dbusObjects).filter(k => k.startsWith(this.rootPath))
systemPaths(objects, rootPath) ==
  SelectSeq(objects, LAMBDA o : StartsWith(o.path, rootPath))

\* systemPaths.map(p => buildDevice(p, dbusObjects[p]))
getDevices(objects, rootPath) ==
  LET sp == systemPaths(objects, rootPath)
  IN [i \in 1..Len(sp) |-> buildDevice(sp[i].path, sp[i].ifaces)]

(***************************************************************************)
(* The objects the service may export (path and interface facets).         *)
(***************************************************************************)
DriveFacet(type) ==
  [Type |-> Variant("s", type),
   Vendor |-> Variant("s", "Micron"),
   Model |-> Variant("s", "Micron 1100 SATA"),
   Driver |-> Variant("as", <<"ahci", "mmcblk">>),
   Bus |-> Variant("s", "IDE"),
   Transport |-> Variant("s", "usb"),
   Info |-> [t |-> "a{sv}",
             v |-> [SDCard |-> Variant("b", TRUE),
                    DellBOSS |-> Variant("b", FALSE)]]]

BlockFacet(name) ==
  [Active |-> Variant("b", TRUE),
   Name |-> Variant("s", name),
   Size |-> Variant("x", 1024),
   Systems |-> Variant("as", <<"Windows">>),
   UdevIds |-> Variant("as", <<>>),
   UdevPaths |-> Variant("as", <<"pci-0000:00-12">>)]

MDFacet ==
  [Level |-> Variant("s", "raid0"),
   UUID |-> Variant("s", "12345:abcde"),
   Members |-> Variant("ao", << <<"/", "s", "/", "a">> >>)]

OtherFacet == "org.freedesktop.DBus.Properties" :> [Any |-> Variant("b", TRUE)]

ObjectPool ==
  << [path |-> <<"/", "s", "/", "a">>,
      ifaces |-> (DRIVE_IFACE :> DriveFacet("disk")) @@ (BLOCK_IFACE :> BlockFacet("/dev/sda"))],
     [path |-> <<"/", "s", "/", "b">>, ifaces |-> OtherFacet],
     [path |-> <<"/", "s", "/", "c">>,
      ifaces |-> (MD_IFACE :> MDFacet) @@ (BLOCK_IFACE :> BlockFacet("/dev/md0"))],
     [path |-> <<"/", "s", "2", "/", "a">>, ifaces |-> BLOCK_IFACE :> BlockFacet("/dev/vda")],
     [path |-> <<"/", "j", "/", "a">>, ifaces |-> OtherFacet] >>

\* The enumerations: the objects of a mapping from path to object, so no
\* path occurs twice; the order is the mapping's iteration order.
Enumerations ==
  {ix \in UNION {[1..n -> 1..Len(ObjectPool)] : n \in 0..MaxObjects} :
     \A i, j \in DOMAIN ix : i # j => ix[i] # ix[j]}

\* The paths the calculator may advertise; "/s/x" is never exported.
PathPool == { <<"/", "s", "/", "a">>, <<"/", "s", "/", "c">>, <<"/", "s", "/", "x">> }

PathLists == UNION {[1..n -> PathPool] : n \in 0..MaxPaths}

(***************************************************************************)
(* DevicesManager.getDevices over every combination of interface facets.   *)
(***************************************************************************)
RAIDFacet == [Devices |-> Variant("as", <<"/dev/sda", "/dev/sdb">>)]

PtableFacet == [Type |-> Variant("s", "gpt")]

Facets == {DRIVE_IFACE, RAID_IFACE, MD_IFACE, BLOCK_IFACE, PTABLE_IFACE}

\* The Type a drive facet may supply.
DriveTypes == {"disk", "raid"}

FacetValue(iface, type) ==
  CASE iface = DRIVE_IFACE -> DriveFacet(type)
    [] iface = RAID_IFACE -> RAIDFacet
    [] iface = MD_IFACE -> MDFacet
    [] iface = BLOCK_IFACE -> BlockFacet("/dev/sda")
    [] iface = PTABLE_IFACE -> PtableFacet

\* The interfaces of an object: any set of facets, next to an interface
\* that getDevices does not know.
FacetCombinations ==
  {[i \in S |-> FacetValue(i, type)] @@ OtherFacet :
     S \in SUBSET Facets, type \in DriveTypes}

\* Two paths under the system root and one outside of it.
FacetPaths == { <<"/", "s", "/", "a">>, <<"/", "s", "/", "b">>, <<"/", "j", "/", "a">> }

\* The answers of GetManagedObjects: a mapping, so no path occurs twice.
FacetEnumerations ==
  {e \in UNION {[1..n -> [path : FacetPaths, ifaces : FacetCombinations]] :
                  n \in 0..MaxFacetObjects} :
     \A i, j \in DOMAIN e : i # j => e[i].path # e[j].path}

InitBuild ==
  /\ fobjects = <<>>
  /\ fdevices = Undefined

\* GetManagedObjects answers a call of getDevices with some set of objects.
ManagedObjectsReturn(objects) ==
  /\ fdevices = Undefined
  /\ fobjects' = objects
  /\ fdevices' = Arr(getDevices(objects, STORAGE_SYSTEM_NAMESPACE))
  /\ UNCHANGED <<varsProxy, varsProposal, varsOps, varsDasd, varsEvents, varsResult, varsShared, varsDeprecate, varsUnregister, varsCopies>>

\* The caller has taken the devices and may call again.
DevicesTaken ==
  /\ fdevices # Undefined
  /\ fobjects' = <<>>
  /\ fdevices' = Undefined
  /\ UNCHANGED <<varsProxy, varsProposal, varsOps, varsDasd, varsEvents, varsResult, varsShared, varsDeprecate, varsUnregister, varsCopies>>

NextDevices ==
  \/ \E objects \in FacetEnumerations : ManagedObjectsReturn(objects)
  \/ DevicesTaken

(***************************************************************************)
(* Promises, once settled.                                                 *)
(***************************************************************************)
Resolved(v) == [state |-> "resolved", value |-> v]
Rejected == [state |-> "rejected", value |-> Undefined]

(***************************************************************************)
(* ProposalManager                                                         *)
(***************************************************************************)
\* Wire volumes: the calculator's VolumeTemplates and the proposal's Volumes.
RootVolume ==
  [MountPoint |-> Variant("s", Str("/")),
   Optional |-> Variant("b", Bool(FALSE)),
   MinSize |-> Variant("x", Num(1024)),
   FsTypes |-> Variant("as", Arr(<<[t |-> "s", v |-> Str("Btrfs")],
                                         [t |-> "s", v |-> Str("Ext3")]>>)),
   FsType |-> Variant("s", Str("Btrfs")),
   Snapshots |-> Variant("b", Bool(TRUE)),
   SizeRelevantVolumes |-> Variant("as", Arr(<<[t |-> "s", v |-> Str("/home")]>>))]

HomeVolume ==
  [MountPoint |-> Variant("s", Str("/home")),
   Optional |-> Variant("b", Bool(TRUE))]

VolumeTemplates == <<RootVolume, HomeVolume>>

\* The proposal object, when the service exports it.
ExportedProposal ==
  [CandidateDevices |-> Arr(<<"/dev/sda">>),
   LVM |-> Bool(TRUE),
   EncryptionPassword |-> Str("00000"),
   Volumes |-> <<RootVolume, HomeVolume>>,
   Actions |-> << [Text |-> Variant("s", Str("Mount /dev/sdb1 as root")),
                   Subvol |-> Variant("b", Bool(FALSE)),
                   Delete |-> Variant("b", Bool(FALSE))] >>]

\* DBusClient.proxy(PROPOSAL_IFACE): fails while the object is not exported.
ClientProxy(exported, object) == IF exported THEN Resolved(object) ELSE Rejected

\* dbusVolume.X?.v
OptV(o, k) == IF k \in DOMAIN o THEN o[k].v ELSE Undefined

\* Faulty variant: an absent list stays undefined.
buildListKeepAbsent(value) ==
  IF value = Undefined THEN Undefined
  ELSE Arr([i \in DOMAIN value.a |-> value.a[i].v])

buildList(value) ==
  IF value = Undefined THEN Arr(<<>>)
  ELSE Arr([i \in DOMAIN value.a |-> value.a[i].v])

buildVolume(dbusVolume) ==
  [mountPoint |-> OptV(dbusVolume, "MountPoint"),
   deviceType |-> OptV(dbusVolume, "DeviceType"),
   optional |-> OptV(dbusVolume, "Optional"),
   encrypted |-> OptV(dbusVolume, "Encrypted"),
   fixedSizeLimits |-> OptV(dbusVolume, "FixedSizeLimits"),
   adaptiveSizes |-> OptV(dbusVolume, "AdaptiveSizes"),
   minSize |-> OptV(dbusVolume, "MinSize"),
   maxSize |-> OptV(dbusVolume, "MaxSize"),
   fsTypes |-> buildList(OptV(dbusVolume, "FsTypes")),
   fsType |-> OptV(dbusVolume, "FsType"),
   snapshots |-> OptV(dbusVolume, "Snapshots"),
   snapshotsConfigurable |-> OptV(dbusVolume, "SnapshotsConfigurable"),
   snapshotsAffectSizes |-> OptV(dbusVolume, "SnapshotsAffectSizes"),
   sizeRelevantVolumes |-> buildList(OptV(dbusVolume, "SizeRelevantVolumes"))]

\* devices.find(d => d.sid === sid)
find(devices, sid) ==
  LET M == {i \in DOMAIN devices : devices[i].sid = sid}
  IN IF M = {} THEN Undefined ELSE devices[CHOOSE i \in M : \A j \in M : i <= j]

\* Faulty variant: the lookup key is the whole path instead of its last segment.
findDeviceByPath(devices, path) ==
  LET device == find(devices, path)
  IN [log |-> IF device = Undefined THEN <<path>> ELSE <<>>, device |-> device]

\* Faulty variant: a missing device is dropped without the diagnostic.
findDeviceSilent(devices, path) ==
  [log |-> <<>>, device |-> find(devices, Pop(Split(path)))]

\* findDevice of getAvailableDevices: the device, and what console.log printed.
findDevice(devices, path) ==
  LET sid == Pop(Split(path))
      device == find(devices, sid)
  IN [log |-> IF device = Undefined THEN <<path>> ELSE <<>>, device |-> device]

RECURSIVE Flatten(_)
Flatten(ss) == IF ss = <<>> THEN <<>> ELSE Head(ss) \o Flatten(Tail(ss))

\* proxy.AvailableDevices.map(path => findDevice(systemDevices, path)).filter(d => d)
getAvailableDevices(devices, paths) ==
  LET found == [i \in 1..Len(paths) |-> findDevice(devices, paths[i])]
  IN [log |-> Flatten([i \in 1..Len(paths) |-> found[i].log]),
      value |-> Arr(SelectSeq([i \in 1..Len(paths) |-> found[i].device], Truthy))]

\* proxy.VolumeTemplates.map(this.buildVolume)
getVolumeTemplates(templates) ==
  Arr([i \in 1..Len(templates) |-> buildVolume(templates[i])])

buildAction(dbusAction) ==
  [text |-> dbusAction.Text.v, subvol |-> dbusAction.Subvol.v, delete |-> dbusAction.Delete.v]

buildResult(proxy) ==
  [candidateDevices |-> proxy.CandidateDevices,
   lvm |-> proxy.LVM,
   encryptionPassword |-> proxy.EncryptionPassword,
   volumes |-> Arr([i \in 1..Len(proxy.Volumes) |-> buildVolume(proxy.Volumes[i])]),
   actions |-> Arr([i \in 1..Len(proxy.Actions) |-> buildAction(proxy.Actions[i])])]

\* Faulty variant: no try/catch, the rejection of client.proxy propagates.
proposalProxyNoCatch(acquired) == acquired

\* Faulty variant: an absence seen once is returned for good.
proposalProxyNull(acquired) == Resolved(Null)

\* proposalProxy: try { return await this.client.proxy(...) } catch { return null }
proposalProxy(acquired) ==
  IF acquired.state = "rejected" THEN Resolved(Null) ELSE acquired

\* getResult, given what proposalProxy() settled to.
getResult(awaited) ==
  IF awaited.state = "rejected" THEN Rejected
  ELSE IF ~Truthy(awaited.value) THEN Resolved(Undefined)
  ELSE Resolved(buildResult(awaited.value))

NoData == [availableDevices |-> Undefined, volumeTemplates |-> Undefined]

InitProposal ==
  /\ proposalExported = FALSE
  /\ calcProxy = "pending"
  /\ pcall = "none"
  /\ ppc = "idle"
  /\ systemDevices = <<>>
  /\ pret = Undefined
  /\ data = NoData
  /\ log = <<>>
  /\ proxyFailed = FALSE

\* The service's side: the proposal object appears and disappears.
ExportProposal ==
  /\ proposalExported' = ~proposalExported
  /\ UNCHANGED <<dbusObjects, availDevices, calcProxy, pcall, ppc, systemDevices,
                 pret, data, log, proxyFailed, varsProxy, varsOps, varsMore>>

\* The constructor's client.proxy(PROPOSAL_CALCULATOR_IFACE, ...) settles.
CalcProxySettle(state) ==
  /\ calcProxy = "pending"
  /\ calcProxy' = state
  /\ UNCHANGED <<dbusObjects, availDevices, proposalExported, pcall, ppc, systemDevices,
                 pret, data, log, proxyFailed, varsProxy, varsOps, varsMore>>

\* A caller calls getData, getAvailableDevices, getVolumeTemplates or getResult;
\* the method runs up to its first await.
ProposalCall(name) ==
  /\ ppc \in {"idle", "resolved", "rejected"}
  /\ pcall' = name
  /\ ppc' = CASE name \in {"getData", "getAvailableDevices"} -> "getDevices"
              [] name = "getVolumeTemplates" -> "calcTemplates"
              [] name = "getResult" -> "proposalProxy"
  /\ systemDevices' = <<>>
  /\ pret' = Undefined
  /\ data' = NoData
  /\ log' = <<>>
  /\ proxyFailed' = FALSE
  /\ UNCHANGED <<dbusObjects, availDevices, proposalExported, calcProxy, varsProxy, varsOps, varsMore>>

\* await this.system.getDevices(): GetManagedObjects answers or fails.
GetDevicesReturn ==
  /\ ppc = "getDevices"
  /\ systemDevices' = getDevices(dbusObjects, STORAGE_SYSTEM_NAMESPACE)
  /\ ppc' = "calcAvail"
  /\ UNCHANGED <<dbusObjects, availDevices, proposalExported, calcProxy, pcall,
                 pret, data, log, proxyFailed, varsProxy, varsOps, varsMore>>

GetDevicesFail ==
  /\ ppc = "getDevices"
  /\ ppc' = "rejected"
  /\ UNCHANGED <<dbusObjects, availDevices, proposalExported, calcProxy, pcall,
                 systemDevices, pret, data, log, proxyFailed, varsProxy, varsOps, varsMore>>

\* An await of this.proxies.proposalCalculator ends in a rejection.
CalculatorRejected ==
  /\ ppc \in {"calcAvail", "calcTemplates"}
  /\ calcProxy = "rejected"
  /\ ppc' = "rejected"
  /\ UNCHANGED <<dbusObjects, availDevices, proposalExported, calcProxy, pcall,
                 systemDevices, pret, data, log, proxyFailed, varsProxy, varsOps, varsMore>>

\* getAvailableDevices after its await of the calculator proxy.
AvailableDevicesReturn ==
  /\ ppc = "calcAvail"
  /\ calcProxy = "resolved"
  /\ LET r == getAvailableDevices(systemDevices, availDevices)
     IN /\ log' = r.log
        /\ IF pcall = "getData"
             THEN /\ data' = [data EXCEPT !.availableDevices = r.value]
                  /\ ppc' = "calcTemplates"
                  /\ pret' = pret
             ELSE /\ pret' = r.value
                  /\ ppc' = "resolved"
                  /\ data' = data
  /\ UNCHANGED <<dbusObjects, availDevices, proposalExported, calcProxy, pcall,
                 systemDevices, proxyFailed, varsProxy, varsOps, varsMore>>

\* getVolumeTemplates after its await of the calculator proxy.
VolumeTemplatesReturn ==
  /\ ppc = "calcTemplates"
  /\ calcProxy = "resolved"
  /\ IF pcall = "getData"
       THEN /\ data' = [data EXCEPT !.volumeTemplates = getVolumeTemplates(VolumeTemplates)]
            /\ ppc' = "proposalProxy"
            /\ pret' = pret
       ELSE /\ pret' = getVolumeTemplates(VolumeTemplates)
            /\ ppc' = "resolved"
            /\ data' = data
  /\ UNCHANGED <<dbusObjects, availDevices, proposalExported, calcProxy, pcall,
                 systemDevices, log, proxyFailed, varsProxy, varsOps, varsMore>>

\* getResult after its await of proposalProxy(); getData returns after it.
ResultReturn ==
  /\ ppc = "proposalProxy"
  /\ LET acquired == ClientProxy(proposalExported, ExportedProposal)
         result == getResult(proposalProxy(acquired))
     IN /\ proxyFailed' = (acquired.state = "rejected")
        /\ ppc' = result.state
        /\ pret' = IF result.state = "rejected" THEN Undefined
                   ELSE IF pcall = "getData"
                     THEN [availableDevices |-> data.availableDevices,
                           volumeTemplates |-> data.volumeTemplates,
                           result |-> result.value]
                   ELSE result.value
  /\ UNCHANGED <<dbusObjects, availDevices, proposalExported, calcProxy, pcall,
                 systemDevices, data, log, varsProxy, varsOps, varsMore>>

NextProposal ==
  \/ ExportProposal
  \/ \E s \in {"resolved", "rejected"} : CalcProxySettle(s)
  \/ \E n \in {"getData", "getAvailableDevices", "getVolumeTemplates", "getResult"} :
       ProposalCall(n)
  \/ GetDevicesReturn
  \/ GetDevicesFail
  \/ CalculatorRejected
  \/ AvailableDevicesReturn
  \/ VolumeTemplatesReturn
  \/ ResultReturn

(***************************************************************************)
(* Outgoing payloads                                                       *)
(***************************************************************************)
\* Faulty variant: nothing is filtered out.
removeNothing(cockpitObject) == cockpitObject

\* Faulty variant: every falsy value is filtered out, false included.
removeFalsyCockpitProperties(cockpitObject) ==
  [k \in {j \in DOMAIN cockpitObject :
            cockpitObject[j].v \notin {Undefined, Null, Bool(FALSE)}} |-> cockpitObject[k]]

\* Object.entries(cockpitObject).filter(([, { v }]) => v !== undefined)
removeUndefinedCockpitProperties(cockpitObject) ==
  [k \in {j \in DOMAIN cockpitObject : cockpitObject[j].v # Undefined} |-> cockpitObject[k]]

dbusVolume(volume) ==
  removeUndefinedCockpitProperties(
    [MountPoint |-> Variant("s", volume.mountPoint),
     MinSize |-> Variant("x", volume.minSize),
     FsType |-> Variant("s", volume.fsType),
     Snapshots |-> Variant("b", volume.snapshots),
     Encrypted |-> Variant("b", volume.encrypted),
     FixedSizeLimits |-> Variant("b", volume.fixedSizeLimits),
     MaxSize |-> Variant("x", volume.maxSize)])

\* volumes?.map(dbusVolume)
mapVolumes(volumes) ==
  IF volumes = Undefined \/ volumes = Null THEN Undefined
  ELSE Arr([i \in DOMAIN volumes.a |-> dbusVolume(volumes.a[i])])

\* const settings of calculate
calculateSettings(args) ==
  removeUndefinedCockpitProperties(
    [CandidateDevices |-> Variant("as", args.candidateDevices),
     LVM |-> Variant("b", args.lvm),
     EncryptionPassword |-> Variant("s", args.encryptionPassword),
     Volumes |-> Variant("aa{sv}", mapVolumes(args.volumes))])

\* const auth of discover
discoverAuth(options) ==
  removeUndefinedCockpitProperties(
    [Username |-> Variant("s", options.username),
     Password |-> Variant("s", options.password),
     ReverseUsername |-> Variant("s", options.reverseUsername),
     ReversePassword |-> Variant("s", options.reversePassword)])

\* const dbusOptions of login
loginOptions(options) ==
  removeUndefinedCockpitProperties(
    [Username |-> Variant("s", options.username),
     Password |-> Variant("s", options.password),
     ReverseUsername |-> Variant("s", options.reverseUsername),
     ReversePassword |-> Variant("s", options.reversePassword),
     Startup |-> Variant("s", options.startup)])

\* "/org/opensuse/Agama/Storage1/iscsi_nodes", shortened to "/n".
ISCSI_NODES_NAMESPACE == <<"/", "n">>

\* "/org/opensuse/Agama/Storage1/dasds", shortened to "/d".
DASD_DEVICES_NAMESPACE == <<"/", "d">>

nodePath(node) == ISCSI_NODES_NAMESPACE \o <<"/">> \o node.id

\* Faulty variant: the "/" between the namespace and the id is missing.
devicePathUnseparated(device) == DASD_DEVICES_NAMESPACE \o device.id

devicePath(device) == DASD_DEVICES_NAMESPACE \o <<"/">> \o device.id

\* devices.map(d => this.devicePath(d))
devicesPath(devices) == [i \in DOMAIN devices |-> devicePath(devices[i])]

(***************************************************************************)
(* The inputs of the operations                                            *)
(***************************************************************************)
FullVolume ==
  [mountPoint |-> Str("/"), encrypted |-> Bool(FALSE), fixedSizeLimits |-> Bool(FALSE),
   minSize |-> Num(1024), maxSize |-> Num(2048), fsType |-> Str("Btrfs"),
   snapshots |-> Bool(TRUE)]

EmptyVolume ==
  [mountPoint |-> Undefined, encrypted |-> Undefined, fixedSizeLimits |-> Undefined,
   minSize |-> Undefined, maxSize |-> Undefined, fsType |-> Undefined,
   snapshots |-> Undefined]

MixedVolume ==
  [mountPoint |-> Str("/home"), encrypted |-> Null, fixedSizeLimits |-> Undefined,
   minSize |-> Num(0), maxSize |-> Null, fsType |-> Undefined,
   snapshots |-> Bool(FALSE)]

VolumePool == {FullVolume, EmptyVolume, MixedVolume}

VolumeLists == UNION {[1..n -> VolumePool] : n \in 0..MaxVolumes}

SettingsInputs ==
  [candidateDevices : {Undefined, Null, Arr(<<"/dev/sda">>)},
   lvm : {Undefined, Null, Bool(FALSE), Bool(TRUE)},
   encryptionPassword : {Undefined, Null, Str("12345")},
   volumes : {Undefined, Null} \cup {Arr(l) : l \in VolumeLists}]

OptString(s) == {Undefined, Null, Str(s)}

DiscoverOptionsInputs ==
  [username : OptString("admin"), password : OptString("1234"),
   reverseUsername : OptString("root"), reversePassword : OptString("root")]

LoginOptionsInputs ==
  [username : OptString("admin"), password : OptString("1234"),
   reverseUsername : OptString("root"), reversePassword : OptString("root"),
   startup : OptString("automatic")]

NodePool == {[id |-> <<"1">>], [id |-> <<"2">>]}

DasdPool == {[id |-> <<"8">>], [id |-> <<"9">>]}

DasdLists == UNION {[1..n -> DasdPool] : n \in 0..MaxDasd}

\* A few inputs of each kind, for the runs that are about the calls' outcomes.
SettingsPool ==
  {[candidateDevices |-> Arr(<<"/dev/sda">>), lvm |-> Bool(TRUE),
    encryptionPassword |-> Str("12345"), volumes |-> Arr(<<FullVolume>>)],
   [candidateDevices |-> Undefined, lvm |-> Bool(FALSE),
    encryptionPassword |-> Undefined, volumes |-> Undefined]}

DiscoverOptionsPool ==
  {[username |-> Str("admin"), password |-> Str("1234"),
    reverseUsername |-> Str("root"), reversePassword |-> Str("root")],
   [username |-> Undefined, password |-> Undefined,
    reverseUsername |-> Undefined, reversePassword |-> Undefined]}

LoginOptionsPool ==
  {[username |-> Str("admin"), password |-> Str("1234"),
    reverseUsername |-> Str("root"), reversePassword |-> Str("root"),
    startup |-> Str("automatic")],
   [username |-> Undefined, password |-> Undefined,
    reverseUsername |-> Undefined, reversePassword |-> Undefined,
    startup |-> Undefined]}

\* The result codes a remote method may return.
RemoteCodes == {0, 1, 2}

(***************************************************************************)
(* The remote operations, one caller                                       *)
(***************************************************************************)
\* The proxy an operation works on: the calculator proxy of the constructor,
\* a proxy kept in this.proxies, or a node proxy acquired for this call.
OpKey(name) ==
  CASE name = "calculate" -> "calculator"
    [] name \in {"discover", "delete"} -> "iscsiInitiator"
    [] name \in {"login", "logout"} -> "node"
    [] OTHER -> "dasdManager"

OpMethod(name) ==
  CASE name = "calculate" -> "Calculate"
    [] name = "discover" -> "Discover"
    [] name = "delete" -> "Delete"
    [] name = "login" -> "Login"
    [] name = "logout" -> "Logout"
    [] name = "probe" -> "Probe"
    [] name = "format" -> "Format"
    [] name = "setDIAG" -> "SetDiag"
    [] name = "enableDevices" -> "Enable"
    [] name = "disableDevices" -> "Disable"
    [] OTHER -> "none"

\* The arguments of the remote method invocation.
RemoteArgs(name, args, pl) ==
  CASE name \in {"calculate", "login"} -> <<pl>>
    [] name = "discover" -> <<args.address, args.port, pl>>
    [] name = "delete" -> <<pl>>
    [] name = "setDIAG" -> <<devicesPath(args.devices), args.value>>
    [] name \in {"format", "enableDevices", "disableDevices"} -> <<devicesPath(args.devices)>>
    [] OTHER -> <<>>

\* Faulty variant: format, setDIAG, enableDevices and disableDevices wait for
\* the remote method like the other methods.
AfterProxyAwaiting(name) ==
  CASE name = "isSupported" -> [pc |-> "resolved", ret |-> Bool(TRUE), invoke |-> FALSE]
    [] OTHER -> [pc |-> "remote", ret |-> Undefined, invoke |-> TRUE]

\* What a method does once its proxy is there: whether it invokes the remote
\* method, and whether it then waits for it or returns at once.
AfterProxy(name) ==
  CASE name = "isSupported" -> [pc |-> "resolved", ret |-> Bool(TRUE), invoke |-> FALSE]
    [] name \in {"format", "setDIAG", "enableDevices", "disableDevices"}
         -> [pc |-> "resolved", ret |-> Undefined, invoke |-> TRUE]
    [] OTHER -> [pc |-> "remote", ret |-> Undefined, invoke |-> TRUE]

\* No method catches the rejection of its proxy acquisition.
AfterProxyRejected(name) == [pc |-> "rejected", ret |-> Undefined]

\* Faulty variant: a nonzero code is mapped to 1.
AfterRemoteNormalized(name, code) ==
  [pc |-> "resolved",
   ret |-> IF name = "probe" THEN Undefined ELSE Num(IF code = 0 THEN 0 ELSE 1)]

\* Faulty variant: a nonzero code makes the method invoke the remote method again.
AfterRemoteRetry(name, code) ==
  IF code # 0 THEN [pc |-> "proxy", ret |-> Undefined]
  ELSE [pc |-> "resolved", ret |-> IF name = "probe" THEN Undefined ELSE Num(code)]

\* return proxy.Method(...): the call resolves with what the remote method
\* returned; await proxy?.Probe() drops it.
AfterRemote(name, code) ==
  [pc |-> "resolved", ret |-> IF name = "probe" THEN Undefined ELSE Num(code)]

AfterRemoteFailed(name) == [pc |-> "rejected", ret |-> Undefined]

InitOps ==
  /\ oname = "none"
  /\ opc = "idle"
  /\ oargs = Undefined
  /\ payload = Undefined
  /\ oacq = "cached"
  /\ osetup = 0
  /\ sent = <<>>
  /\ remote = "none"
  /\ remoteRet = 0
  /\ oret = Undefined
  /\ acquireFailed = FALSE

\* A method is called and runs up to the await of its proxy.
StartOp(name, args, pl) ==
  /\ opc = "idle"
  /\ oname' = name
  /\ oargs' = args
  /\ payload' = pl
  /\ opc' = "proxy"
  /\ sent' = <<>>
  /\ remote' = "none"
  /\ remoteRet' = 0
  /\ oret' = Undefined
  /\ acquireFailed' = FALSE
  /\ CASE OpKey(name) = "calculator" ->
            /\ oacq' = "promise"
            /\ osetup' = 0
            /\ UNCHANGED <<mclient, clients, handles>>
       [] OpKey(name) = "node" ->
            /\ client("iscsi")
            /\ oacq' = "fresh"
            /\ osetup' = 0
            /\ UNCHANGED handles
       [] OTHER ->
            IF GetterNeedsSetup(OpKey(name))
              THEN /\ Len(handles) < MaxCalls
                   /\ client(ManagerOf(OpKey(name)))
                   /\ handles' = Append(handles, OpKey(name))
                   /\ oacq' = "setup"
                   /\ osetup' = Len(handles) + 1
              ELSE /\ oacq' = "cached"
                   /\ osetup' = 0
                   /\ UNCHANGED <<mclient, clients, handles>>
  /\ UNCHANGED <<proxies, tasks, calls, firstRet, varsProposal, varsMore>>

Calculate(settings) == StartOp("calculate", settings, calculateSettings(settings))

Discover(address, port, options) ==
  StartOp("discover", [options |-> options, address |-> address, port |-> port],
          discoverAuth(options))

Delete(node) == StartOp("delete", [node |-> node], nodePath(node))

Login(node, options) ==
  StartOp("login", [options |-> options, node |-> node], loginOptions(options))

Logout(node) == StartOp("logout", [node |-> node], Undefined)

Probe == StartOp("probe", Undefined, Undefined)

IsSupported == StartOp("isSupported", Undefined, Undefined)

Format(devices) == StartOp("format", [devices |-> devices], Undefined)

SetDIAG(devices, value) == StartOp("setDIAG", [devices |-> devices, value |-> value], Undefined)

EnableDevices(devices) == StartOp("enableDevices", [devices |-> devices], Undefined)

DisableDevices(devices) == StartOp("disableDevices", [devices |-> devices], Undefined)

\* The awaited proxy is there: a getter that made the setup stores it, and the
\* method goes on to its remote method invocation.
OpProxyResolve ==
  /\ opc = "proxy"
  /\ oacq = "promise" => calcProxy = "resolved"
  /\ proxies' = IF oacq = "setup" THEN [proxies EXCEPT ![OpKey(oname)] = osetup] ELSE proxies
  /\ LET step == AfterProxy(oname)
     IN /\ opc' = step.pc
        /\ oret' = step.ret
        /\ sent' = IF step.invoke
                     THEN Append(sent, [args |-> RemoteArgs(oname, oargs, payload),
                                        method |-> OpMethod(oname)])
                     ELSE sent
        /\ remote' = IF step.invoke THEN "running" ELSE remote
  /\ UNCHANGED <<mclient, clients, handles, tasks, calls, firstRet, varsProposal, varsMore,
                 oname, oargs, payload, oacq, osetup, remoteRet, acquireFailed>>

\* The awaited proxy acquisition is rejected.
OpProxyReject ==
  /\ opc = "proxy"
  /\ oacq # "cached"
  /\ oacq = "promise" => calcProxy = "rejected"
  /\ opc' = AfterProxyRejected(oname).pc
  /\ oret' = AfterProxyRejected(oname).ret
  /\ acquireFailed' = TRUE
  /\ UNCHANGED <<varsProxy, varsProposal, varsMore, oname, oargs, payload, oacq, osetup, sent,
                 remote, remoteRet>>

\* The remote method returns a code.
RemoteReturn(code) ==
  /\ remote = "running"
  /\ remote' = "returned"
  /\ remoteRet' = code
  /\ IF opc = "remote"
       THEN /\ opc' = AfterRemote(oname, code).pc
            /\ oret' = AfterRemote(oname, code).ret
       ELSE UNCHANGED <<opc, oret>>
  /\ UNCHANGED <<varsProxy, varsProposal, varsMore, oname, oargs, payload, oacq, osetup, sent,
                 acquireFailed>>

\* The remote method fails.
RemoteFail ==
  /\ remote = "running"
  /\ remote' = "failed"
  /\ IF opc = "remote"
       THEN /\ opc' = AfterRemoteFailed(oname).pc
            /\ oret' = AfterRemoteFailed(oname).ret
       ELSE UNCHANGED <<opc, oret>>
  /\ UNCHANGED <<varsProxy, varsProposal, varsMore, oname, oargs, payload, oacq, osetup, sent,
                 remoteRet, acquireFailed>>

\* The caller has taken the outcome of its call. An invocation that nobody
\* waits for may still be running: its end changes nothing in this layer.
OpReturn ==
  /\ opc \in {"resolved", "rejected"}
  /\ oname' = "none"
  /\ opc' = "idle"
  /\ oargs' = Undefined
  /\ payload' = Undefined
  /\ oacq' = "cached"
  /\ osetup' = 0
  /\ sent' = <<>>
  /\ remote' = "none"
  /\ remoteRet' = 0
  /\ oret' = Undefined
  /\ acquireFailed' = FALSE
  /\ UNCHANGED <<varsProxy, varsProposal, varsMore>>

\* The calls that build a payload, over all their inputs.
NextPayload ==
  \/ \E s \in {"resolved", "rejected"} : CalcProxySettle(s)
  \/ \E settings \in SettingsInputs : Calculate(settings)
  \/ \E options \in DiscoverOptionsInputs : Discover("192.168.100.101", 3260, options)
  \/ \E node \in NodePool, options \in LoginOptionsInputs : Login(node, options)
  \/ OpProxyResolve
  \/ OpProxyReject
  \/ \E code \in RemoteCodes : RemoteReturn(code)
  \/ RemoteFail
  \/ OpReturn

NextOps ==
  \/ \E s \in {"resolved", "rejected"} : CalcProxySettle(s)
  \/ \E settings \in SettingsPool : Calculate(settings)
  \/ \E options \in DiscoverOptionsPool : Discover("192.168.100.101", 3260, options)
  \/ \E node \in NodePool : Delete(node)
  \/ \E node \in NodePool, options \in LoginOptionsPool : Login(node, options)
  \/ \E node \in NodePool : Logout(node)
  \/ Probe
  \/ IsSupported
  \/ \E devices \in DasdLists : Format(devices)
  \/ \E devices \in DasdLists, value \in BOOLEAN : SetDIAG(devices, value)
  \/ \E devices \in DasdLists : EnableDevices(devices)
  \/ \E devices \in DasdLists : DisableDevices(devices)
  \/ OpProxyResolve
  \/ OpProxyReject
  \/ \E code \in RemoteCodes : RemoteReturn(code)
  \/ RemoteFail
  \/ OpReturn

(***************************************************************************)
(* DASDManager.getJobs and DASDManager.getDevices, one caller               *)
(***************************************************************************)
\* Faulty variant: the exit code is not taken from the job object.
buildJobNoExitCode(job) == [path |-> job.path, running |-> job.Running, exitCode |-> 0]

\* DASDManager.buildJob
buildJob(job) == [path |-> job.path, running |-> job.Running, exitCode |-> job.ExitCode]

\* Faulty variant: the finished jobs are not filtered out.
getJobsUnfiltered(proxy) == Arr([i \in DOMAIN proxy |-> buildJob(proxy[i])])

\* Object.values(proxy).filter(p => p.Running).map(this.buildJob)
getJobs(proxy) ==
  LET running == SelectSeq(proxy, LAMBDA p : p.Running)
  IN Arr([i \in DOMAIN running |-> buildJob(running[i])])

\* hex of ~/utils: the number a channel id such as "0.0.019e" denotes when
\* its dots are dropped and the rest is read as a hexadecimal numeral.
HexDigit(c) ==
  CASE c = "0" -> 0 [] c = "1" -> 1 [] c = "2" -> 2 [] c = "3" -> 3 [] c = "4" -> 4
    [] c = "5" -> 5 [] c = "6" -> 6 [] c = "7" -> 7 [] c = "8" -> 8 [] c = "9" -> 9
    [] c = "a" -> 10 [] c = "b" -> 11 [] c = "c" -> 12 [] c = "d" -> 13
    [] c = "e" -> 14 [] c = "f" -> 15

RECURSIVE hexOf(_, _)
hexOf(value, acc) ==
  IF value = <<>> THEN acc
  ELSE IF Head(value) = "." THEN hexOf(Tail(value), acc)
  ELSE hexOf(Tail(value), 16 * acc + HexDigit(Head(value)))

hex(value) == hexOf(value, 0)

\* DASDManager.buildDevice
dasdBuildDevice(device) ==
  LET id == Pop(Split(device.path))
      enabled == device.Enabled
  IN [type |-> device.Type,
      name |-> device.DeviceName,
      id |-> id,
      enabled |-> enabled,
      accessType |-> IF enabled THEN device.AccessType ELSE "offline",
      channelId |-> device.Id,
      diag |-> device.Diag,
      formatted |-> device.Formatted,
      hexId |-> hex(device.Id),
      partitionInfo |-> IF enabled THEN device.PartitionInfo ELSE "",
      status |-> device.Status]

\* Object.values(devices).map(this.buildDevice)
dasdGetDevices(devices) == Arr([i \in DOMAIN devices |-> dasdBuildDevice(devices[i])])

\* The job objects the service may export under the jobs namespace "/j".
JobObjects ==
  {[path |-> <<"/", "j", "/", n>>, Running |-> r, ExitCode |-> c] :
     n \in {"1", "2"}, r \in BOOLEAN, c \in {0, 1}} \
  {[path |-> <<"/", "j", "/", n>>, Running |-> TRUE, ExitCode |-> 1] : n \in {"1", "2"}}

JobCollections ==
  {l \in UNION {[1..n -> JobObjects] : n \in 0..MaxJobs} :
     \A i, j \in DOMAIN l : i # j => l[i].path # l[j].path}

\* The device objects the service may export under the DASD namespace "/d".
DasdObject(n, enabled) ==
  [Type |-> "ECKD",
   path |-> <<"/", "d", "/", n>>,
   Enabled |-> enabled,
   DeviceName |-> IF enabled THEN "dasda" ELSE "",
   AccessType |-> "rw",
   Id |-> <<"0", ".", "0", ".", "0", "1", "9", n>>,
   Diag |-> FALSE,
   Formatted |-> enabled,
   PartitionInfo |-> "/dev/dasda1",
   Status |-> IF enabled THEN "active" ELSE "offline"]

DasdObjects == {DasdObject(n, e) : n \in {"e", "f"}, e \in BOOLEAN}

DasdCollections ==
  {l \in UNION {[1..n -> DasdObjects] : n \in 0..MaxDasd} :
     \A i, j \in DOMAIN l : i # j => l[i].path # l[j].path}

InitDasd ==
  /\ jobsColl = <<>>
  /\ dasdColl = <<>>
  /\ dname = "none"
  /\ dpc = "idle"
  /\ dsetup = 0
  /\ probeState = "none"
  /\ dret = Undefined

\* The service's side: jobs start, finish and disappear.
JobsChange(jobs) ==
  /\ jobsColl # jobs
  /\ jobsColl' = jobs
  /\ UNCHANGED <<dasdColl, dname, dpc, dsetup, probeState, dret,
                 varsProxy, varsProposal, varsOps, varsBuild, varsEvents, varsResult, varsShared, varsDeprecate, varsUnregister, varsCopies>>

\* A getter of this.proxies is called: it starts the setup if the key is unset.
BeginAcquire(k) ==
  IF GetterNeedsSetup(k)
    THEN /\ client(ManagerOf(k))
         /\ handles' = Append(handles, k)
         /\ dsetup' = Len(handles) + 1
    ELSE /\ dsetup' = 0
         /\ UNCHANGED <<mclient, clients, handles>>

\* The setups a call may still have to make.
SetupsOf(name) ==
  Cardinality({k \in (IF name = "getJobs" THEN {"jobs"} ELSE {"dasdManager", "devices"}) :
                 GetterNeedsSetup(k)})

\* getJobs or getDevices is called and runs up to its first await:
\* jobsProxy() for getJobs, managerProxy() within probe() for getDevices.
DasdCall(name) ==
  /\ dpc = "idle"
  /\ Len(handles) + SetupsOf(name) <= MaxCalls
  /\ dname' = name
  /\ dpc' = IF name = "getJobs" THEN "jobsProxy" ELSE "managerProxy"
  /\ BeginAcquire(IF name = "getJobs" THEN "jobs" ELSE "dasdManager")
  /\ probeState' = "none"
  /\ dret' = Undefined
  /\ UNCHANGED <<jobsColl, dasdColl, proxies, tasks, calls, firstRet,
                 varsProposal, varsOps, varsBuild, varsEvents, varsResult, varsShared, varsDeprecate, varsUnregister, varsCopies>>

\* The key of this.proxies an await of the call is about.
DasdKey(pc) ==
  CASE pc = "jobsProxy" -> "jobs"
    [] pc = "managerProxy" -> "dasdManager"
    [] pc = "devicesProxy" -> "devices"

\* Faulty variant: getDevices does not wait for probe().
AfterProbeCallNoWait == "devicesProxy"

\* await this.probe(): getDevices goes on when the remote Probe has returned.
AfterProbeCall == "probe"

\* The awaited proxy is there; a getter that made the setup stores it.
\*   getJobs: the jobs are read and the call resolves;
\*   probe(): Probe is invoked;
\*   getDevices after probe(): the devices are read and the call resolves.
DasdProxyResolve ==
  /\ dpc \in {"jobsProxy", "managerProxy", "devicesProxy"}
  /\ proxies' = IF dsetup # 0 THEN [proxies EXCEPT ![DasdKey(dpc)] = dsetup] ELSE proxies
  /\ CASE dpc = "jobsProxy" ->
            /\ dret' = getJobs(jobsColl)
            /\ dpc' = "resolved"
            /\ dsetup' = 0
            /\ UNCHANGED <<probeState, mclient, clients, handles>>
       [] dpc = "managerProxy" ->
            /\ probeState' = "running"
            /\ dpc' = AfterProbeCall
            /\ dret' = dret
            /\ IF AfterProbeCall = "devicesProxy"
                 THEN BeginAcquire("devices")
                 ELSE dsetup' = 0 /\ UNCHANGED <<mclient, clients, handles>>
       [] dpc = "devicesProxy" ->
            /\ dret' = dasdGetDevices(dasdColl)
            /\ dpc' = "resolved"
            /\ dsetup' = 0
            /\ UNCHANGED <<probeState, mclient, clients, handles>>
  /\ UNCHANGED <<jobsColl, dasdColl, dname, tasks, calls, firstRet,
                 varsProposal, varsOps, varsBuild, varsEvents, varsResult, varsShared, varsDeprecate, varsUnregister, varsCopies>>

\* The awaited setup is rejected: the call rejects.
DasdProxyReject ==
  /\ dpc \in {"jobsProxy", "managerProxy", "devicesProxy"}
  /\ dsetup # 0
  /\ dpc' = "rejected"
  /\ dsetup' = 0
  /\ UNCHANGED <<jobsColl, dasdColl, dname, probeState, dret,
                 varsProxy, varsProposal, varsOps, varsBuild, varsEvents, varsResult, varsShared, varsDeprecate, varsUnregister, varsCopies>>

\* The remote Probe returns: the service has updated the devices collection.
\* probe() resolves and getDevices calls devicesProxy().
ProbeReturn(devices) ==
  /\ probeState = "running"
  /\ probeState' = "returned"
  /\ dasdColl' = devices
  /\ IF dpc = "probe"
       THEN /\ dpc' = "devicesProxy"
            /\ BeginAcquire("devices")
       ELSE UNCHANGED <<dpc, dsetup, mclient, clients, handles>>
  /\ UNCHANGED <<jobsColl, dname, dret, proxies, tasks, calls, firstRet,
                 varsProposal, varsOps, varsBuild, varsEvents, varsResult, varsShared, varsDeprecate, varsUnregister, varsCopies>>

\* The remote Probe fails: probe() rejects, and getDevices with it.
ProbeFail ==
  /\ probeState = "running"
  /\ probeState' = "failed"
  /\ dpc' = IF dpc = "probe" THEN "rejected" ELSE dpc
  /\ UNCHANGED <<jobsColl, dasdColl, dname, dsetup, dret,
                 varsProxy, varsProposal, varsOps, varsBuild, varsEvents, varsResult, varsShared, varsDeprecate, varsUnregister, varsCopies>>

\* The caller has taken the outcome of its call.
DasdReturn ==
  /\ dpc \in {"resolved", "rejected"}
  /\ probeState # "running"
  /\ dname' = "none"
  /\ dpc' = "idle"
  /\ probeState' = "none"
  /\ dret' = Undefined
  /\ UNCHANGED <<jobsColl, dasdColl, dsetup, varsProxy, varsProposal, varsOps, varsBuild, varsEvents, varsResult, varsShared, varsDeprecate, varsUnregister, varsCopies>>

NextDasd ==
  \/ \E jobs \in JobCollections : JobsChange(jobs)
  \/ \E name \in {"getJobs", "getDevices"} : DasdCall(name)
  \/ DasdProxyResolve
  \/ DasdProxyReject
  \/ \E devices \in DasdCollections : ProbeReturn(devices)
  \/ ProbeFail
  \/ DasdReturn

(***************************************************************************)
(* Event subscriptions: onJobAdded, onJobChanged, deviceEventListener,     *)
(* onFormatProgress, onNodeAdded, onNodeChanged, onNodeRemoved              *)
(***************************************************************************)
Signals == {"added", "changed", "removed"}

\* The subscription methods: the getter each awaits and the signal it listens to.
SubscribeMethods ==
  {[key |-> "jobs", name |-> "onJobAdded", signal |-> "added"],
   [key |-> "jobs", name |-> "onJobChanged", signal |-> "changed"],
   [key |-> "format", name |-> "onFormatProgress", signal |-> "changed"],
   [key |-> "iscsiNodes", name |-> "onNodeAdded", signal |-> "added"],
   [key |-> "iscsiNodes", name |-> "onNodeChanged", signal |-> "changed"],
   [key |-> "iscsiNodes", name |-> "onNodeRemoved", signal |-> "removed"]} \cup
  {[key |-> "devices", name |-> "deviceEventListener", signal |-> sg] : sg \in Signals}

EventKeys == {m.key : m \in SubscribeMethods}

\* ISCSIManager.buildNode
buildNode(proxy) ==
  [startup |-> proxy.Startup,
   id |-> Pop(Split(proxy.path)),
   address |-> proxy.Address,
   port |-> proxy.Port,
   target |-> proxy.Target,
   interface |-> proxy.Interface,
   ibft |-> proxy.IBFT,
   connected |-> proxy.Connected]

\* Faulty variant: the listener hands the notified proxy itself to the handler.
ListenerValueRaw(name, proxy) == proxy

\* What the listener of a subscription method passes to the handler:
\*   (_, proxy) => handler(this.buildJob(proxy)), ... handler(proxy.Summary)
ListenerValue(name, proxy) ==
  CASE name \in {"onJobAdded", "onJobChanged"} -> buildJob(proxy)
    [] name = "deviceEventListener" -> dasdBuildDevice(proxy)
    [] name = "onFormatProgress" -> proxy.Summary
    [] name \in {"onNodeAdded", "onNodeChanged", "onNodeRemoved"} -> buildNode(proxy)

\* Faulty variant: the listener awaits a remote read before it calls the handler.
ListenerCallAfterAwait == "await"

\* The listeners are plain arrow functions: the handler is called, and has
\* returned, within the listener's own call.
ListenerCall == "sync"

\* Faulty variant: the listener is added to every object made for the key.
ListenedObjectsAll(h, k) == {g \in DOMAIN handles : handles[g] = k}

\* proxy.addEventListener(signal, ...): the one object the awaited getter returned.
ListenedObjects(h, k) == {h}

\* The objects a notification of each collection may be about.
EventObjects(k) ==
  CASE k = "jobs" ->
         {[path |-> <<"/", "j", "/", "1">>, Running |-> FALSE, ExitCode |-> 1]}
    [] k = "devices" -> {DasdObject("f", FALSE)}
    [] k = "format" ->
         {[path |-> <<"/", "j", "/", "1">>, Summary |-> <<"/", "d", "/", "e">>]}
    [] k = "iscsiNodes" ->
         {[path |-> <<"/", "n", "/", "1">>, Startup |-> "onboot",
           Address |-> "192.168.100.101", Port |-> 3260, Target |-> "iqn.2023-01.com.example:t1",
           Interface |-> "default", IBFT |-> FALSE, Connected |-> TRUE]}

InitListeners ==
  /\ nsubs = 0
  /\ pending = {}
  /\ listeners = <<>>
  /\ notes = <<>>
  /\ dispatched = 0
  /\ handled = <<>>

\* The runs about other operations make no subscription.
InitEventsIdle ==
  /\ watched = "jobs"
  /\ InitListeners

\* Each run follows the subscriptions to one collection.
InitEvents ==
  /\ watched \in EventKeys
  /\ InitListeners

EventManagerOf(k) == IF k = "format" THEN "dasd" ELSE ManagerOf(k)

\* formatProxy has no cache; the other getters test this.proxies.
SubscribeNeedsSetup(k) == k = "format" \/ GetterNeedsSetup(k)

\* The listeners after subscription s has added its own, its getter having
\* returned object h.
Registered(s, name, signal, h) ==
  LET objs == ListenedObjects(h, watched)
      Added[n \in 0..Len(handles)] ==
        IF n = 0 THEN <<>>
        ELSE IF n \in objs
               THEN Append(Added[n - 1],
                           [s |-> s, name |-> name, signal |-> signal, obj |-> n,
                            since |-> dispatched])
               ELSE Added[n - 1]
  IN listeners \o Added[Len(handles)]

\* A subscription method is called with a handler. With the proxy cached the
\* code after the await is the next job to run, before any other event: the
\* listener is added in the same step. Otherwise the setup is awaited.
SubscribeCall(m) ==
  /\ m.key = watched
  /\ nsubs < MaxSubs
  /\ nsubs' = nsubs + 1
  /\ IF SubscribeNeedsSetup(m.key)
       THEN /\ client(EventManagerOf(m.key))
            /\ handles' = Append(handles, m.key)
            /\ pending' = pending \cup
                 {[s |-> nsubs + 1, n |-> 0, h |-> Len(handles) + 1,
                   name |-> m.name, value |-> Undefined, signal |-> m.signal, kind |-> "subscribe"]}
            /\ UNCHANGED listeners
       ELSE /\ listeners' = Registered(nsubs + 1, m.name, m.signal, proxies[m.key])
            /\ UNCHANGED <<mclient, clients, handles, pending>>
  /\ UNCHANGED <<watched, notes, dispatched, handled, proxies, tasks, calls, firstRet,
                 varsProposal, varsOps, varsBuild, varsDasd, varsResult, varsShared, varsDeprecate, varsUnregister, varsCopies>>

\* An awaited promise resolves and the code after the await runs: a
\* subscription stores the proxy (unless formatProxy made it) and adds its
\* listener; a handler call that was waiting is made.
Resume(j) ==
  /\ j \in pending
  /\ pending' = pending \ {j}
  /\ IF j.kind = "subscribe"
       THEN /\ proxies' = IF watched = "format" THEN proxies
                          ELSE [proxies EXCEPT ![watched] = j.h]
            /\ listeners' = Registered(j.s, j.name, j.signal, j.h)
            /\ UNCHANGED handled
       ELSE /\ handled' = Append(handled, [s |-> j.s, n |-> j.n, value |-> j.value])
            /\ UNCHANGED <<proxies, listeners>>
  /\ UNCHANGED <<watched, nsubs, notes, dispatched, mclient, clients, handles, tasks,
                 calls, firstRet, varsProposal, varsOps, varsBuild, varsDasd, varsResult, varsShared, varsDeprecate, varsUnregister, varsCopies>>

\* The awaited setup of a subscription rejects: no listener is added.
SubscribeReject(j) ==
  /\ j \in pending
  /\ j.kind = "subscribe"
  /\ pending' = pending \ {j}
  /\ UNCHANGED <<watched, nsubs, listeners, notes, dispatched, handled,
                 varsProxy, varsProposal, varsOps, varsBuild, varsDasd, varsResult, varsShared, varsDeprecate, varsUnregister, varsCopies>>

\* A notification about an object of the watched collection arrives from the
\* transport; the client receives them once it has asked for the collection.
Notify(signal, object) ==
  /\ \E h \in DOMAIN handles : handles[h] = watched
  /\ Len(notes) < MaxNotes
  /\ watched = "format" => signal = "changed"
  /\ notes' = Append(notes, [object |-> object, signal |-> signal])
  /\ UNCHANGED <<watched, nsubs, pending, listeners, dispatched, handled,
                 varsProxy, varsProposal, varsOps, varsBuild, varsDasd, varsResult, varsShared, varsDeprecate, varsUnregister, varsCopies>>

\* The handler calls the listeners make for notification n, in listener order.
RECURSIVE ListenerCalls(_, _)
ListenerCalls(n, i) ==
  IF i > Len(listeners) THEN <<>>
  ELSE IF listeners[i].signal = notes[n].signal
         THEN <<[s |-> listeners[i].s, n |-> n,
                 value |-> ListenerValue(listeners[i].name, notes[n].object)]>>
              \o ListenerCalls(n, i + 1)
         ELSE ListenerCalls(n, i + 1)

\* The event loop dispatches the oldest notification not yet dispatched: every
\* object made for the collection calls its listeners for the signal, each
\* listener to completion.
Dispatch ==
  /\ dispatched < Len(notes)
  /\ dispatched' = dispatched + 1
  /\ LET made == ListenerCalls(dispatched + 1, 1)
     IN IF ListenerCall = "sync"
          THEN /\ handled' = handled \o made
               /\ UNCHANGED pending
          ELSE /\ pending' = pending \cup
                    {[s |-> made[i].s, n |-> made[i].n, h |-> 0, name |-> "",
                      value |-> made[i].value, signal |-> "", kind |-> "handler"] : i \in DOMAIN made}
               /\ UNCHANGED handled
  /\ UNCHANGED <<watched, nsubs, listeners, notes,
                 varsProxy, varsProposal, varsOps, varsBuild, varsDasd, varsResult, varsShared, varsDeprecate, varsUnregister, varsCopies>>

NextEvents ==
  \/ \E m \in SubscribeMethods : SubscribeCall(m)
  \/ \E j \in pending : Resume(j)
  \/ \E j \in pending : SubscribeReject(j)
  \/ \E sg \in Signals : \E object \in EventObjects(watched) : Notify(sg, object)
  \/ Dispatch

(***************************************************************************)
(* ProposalManager.getResult, called by several callers                    *)
(***************************************************************************)
IdleResult == [pc |-> "idle", ret |-> Undefined, prev |-> "none"]

InitResult ==
  /\ rtasks = [c \in Callers |-> IdleResult]
  /\ racquired = 0

\* getResult is called: proposalProxy() calls this.client.proxy(PROPOSAL_IFACE)
\* and the call awaits it. Nothing is looked up and nothing is stored.
ResultCall(c) ==
  /\ rtasks[c].pc \in {"idle", "done"}
  /\ racquired < MaxCalls
  /\ racquired' = racquired + 1
  /\ rtasks' = [rtasks EXCEPT ![c] =
       [pc |-> "proposalProxy", ret |-> Undefined,
        prev |-> CASE rtasks[c].pc = "idle" -> "none"
                   [] rtasks[c].ret = Undefined -> "absent"
                   [] OTHER -> "result"]]
  /\ UNCHANGED <<varsProxy, varsProposal, varsOps, varsBuild, varsDasd, varsEvents,
                 varsShared, varsDeprecate, varsUnregister, varsCopies>>

\* The awaited proposalProxy() settles and getResult returns.
ResultSettle(c) ==
  /\ rtasks[c].pc = "proposalProxy"
  /\ LET acquired == ClientProxy(proposalExported, ExportedProposal)
         result == getResult(proposalProxy(acquired))
     IN rtasks' = [rtasks EXCEPT ![c].pc = IF result.state = "rejected" THEN "rejected"
                                           ELSE "done",
                                 ![c].ret = result.value]
  /\ UNCHANGED <<racquired, varsProxy, varsProposal, varsOps, varsBuild, varsDasd,
                 varsEvents, varsShared, varsDeprecate, varsUnregister, varsCopies>>

NextResult ==
  \/ ExportProposal
  \/ \E c \in Callers : ResultCall(c)
  \/ \E c \in Callers : ResultSettle(c)

(***************************************************************************)
(* The proxies acquired by the constructors of ProposalManager and         *)
(* StorageBaseClient, and the methods that await them                      *)
(***************************************************************************)
SharedKeys == {"proposalCalculator", "storage"}

\* The methods that await this.proxies.proposalCalculator or this.proxies.storage.
SharedKeyOf(name) ==
  IF name \in {"getAvailableDevices", "getVolumeTemplates", "calculate"}
    THEN "proposalCalculator"
    ELSE "storage"

SharedMethods ==
  {"getAvailableDevices", "getVolumeTemplates", "calculate", "probe", "isDeprecated"}

\* Faulty variant: the method calls client.proxy itself.
MethodAcquiresAnew(name) == TRUE

\* await this.proxies.x: the methods await what the constructor stored.
MethodAcquires(name) == FALSE

IdleShared == [pc |-> "idle", name |-> "none", awaits |-> 0]

\* After construction: one client.proxy call per key, its promise stored.
InitShared ==
  /\ acquisitions = <<[key |-> "proposalCalculator", state |-> "pending"],
                      [key |-> "storage", state |-> "pending"]>>
  /\ sproxies = [k \in SharedKeys |-> IF k = "proposalCalculator" THEN 1 ELSE 2]
  /\ stasks = [c \in Callers |-> IdleShared]
  /\ scalls = 0

\* A client.proxy call of a constructor settles.
AcquisitionSettle(i, state) ==
  /\ i \in DOMAIN acquisitions
  /\ acquisitions[i].state = "pending"
  /\ acquisitions' = [acquisitions EXCEPT ![i].state = state]
  /\ UNCHANGED <<sproxies, stasks, scalls, varsProxy, varsProposal, varsOps, varsBuild,
                 varsDasd, varsEvents, varsResult, varsDeprecate, varsUnregister, varsCopies>>

\* A method is called and runs up to its first await: system.getDevices()
\* for getAvailableDevices, the stored proxy for the others.
SharedCall(c, name) ==
  /\ stasks[c].pc \in {"idle", "done", "rejected"}
  /\ scalls < MaxCalls
  /\ scalls' = scalls + 1
  /\ IF name = "getAvailableDevices"
       THEN /\ stasks' = [stasks EXCEPT ![c] = [pc |-> "getDevices", name |-> name, awaits |-> 0]]
            /\ UNCHANGED acquisitions
       ELSE IF MethodAcquires(name)
         THEN /\ acquisitions' = Append(acquisitions,
                                        [key |-> SharedKeyOf(name), state |-> "pending"])
              /\ stasks' = [stasks EXCEPT ![c] =
                   [pc |-> "awaiting", name |-> name, awaits |-> Len(acquisitions) + 1]]
         ELSE /\ stasks' = [stasks EXCEPT ![c] =
                   [pc |-> "awaiting", name |-> name, awaits |-> sproxies[SharedKeyOf(name)]]]
              /\ UNCHANGED acquisitions
  /\ UNCHANGED <<sproxies, varsProxy, varsProposal, varsOps, varsBuild, varsDasd, varsEvents,
                 varsResult, varsDeprecate, varsUnregister, varsCopies>>

\* getAvailableDevices: system.getDevices() has answered; the stored
\* calculator proxy is awaited next.
SharedDevicesReturn(c) ==
  /\ stasks[c].pc = "getDevices"
  /\ IF MethodAcquires(stasks[c].name)
       THEN /\ acquisitions' = Append(acquisitions,
                                      [key |-> "proposalCalculator", state |-> "pending"])
            /\ stasks' = [stasks EXCEPT ![c].pc = "awaiting",
                                        ![c].awaits = Len(acquisitions) + 1]
       ELSE /\ stasks' = [stasks EXCEPT ![c].pc = "awaiting",
                                        ![c].awaits = sproxies["proposalCalculator"]]
            /\ UNCHANGED acquisitions
  /\ UNCHANGED <<sproxies, scalls, varsProxy, varsProposal, varsOps, varsBuild, varsDasd,
                 varsEvents, varsResult, varsDeprecate, varsUnregister, varsCopies>>

\* The awaited proxy has settled: the method goes on with it, or rejects.
SharedContinue(c) ==
  /\ stasks[c].pc = "awaiting"
  /\ acquisitions[stasks[c].awaits].state # "pending"
  /\ stasks' = [stasks EXCEPT ![c].pc =
       IF acquisitions[stasks[c].awaits].state = "resolved" THEN "done" ELSE "rejected"]
  /\ UNCHANGED <<acquisitions, sproxies, scalls, varsProxy, varsProposal, varsOps,
                 varsBuild, varsDasd, varsEvents, varsResult, varsDeprecate, varsUnregister, varsCopies>>

NextShared ==
  \/ \E i \in 1..2, state \in {"resolved", "rejected"} : AcquisitionSettle(i, state)
  \/ \E c \in Callers, name \in SharedMethods : SharedCall(c, name)
  \/ \E c \in Callers : SharedDevicesReturn(c)
  \/ \E c \in Callers : SharedContinue(c)

(***************************************************************************)
(* StorageBaseClient.onDeprecate                                           *)
(***************************************************************************)
STORAGE_IFACE == "org.opensuse.Agama.Storage1"

\* Truthiness of a property value: undefined, null and false are falsy.
TruthyValue(x) == Truthy(x) /\ x # Bool(FALSE)

\* Faulty variant: the handler runs whenever DeprecatedSystem has changed.
onDeprecateCallsOnAnyChange(changes) == "DeprecatedSystem" \in DOMAIN changes

\* if (changes.DeprecatedSystem?.v) return handler()
onDeprecateCalls(changes) == TruthyValue(OptV(changes, "DeprecatedSystem"))

\* The changes a notification may carry: DeprecatedSystem true, false or not
\* among them, alone or next to another property.
DeprecateValues == {Variant("b", Bool(TRUE)), Variant("b", Bool(FALSE))}

ChangesPool ==
  {"DeprecatedSystem" :> d : d \in DeprecateValues} \cup
  {("DeprecatedSystem" :> d) @@ ("Status" :> Variant("u", Num(1))) : d \in DeprecateValues} \cup
  {"Status" :> Variant("u", Num(1))}

InitDeprecate ==
  /\ depHandlers = 0
  /\ changed = <<>>
  /\ depCalls = <<>>

\* onDeprecate(handler): the callback is registered at once, no await.
OnDeprecate ==
  /\ depHandlers < MaxSubs
  /\ depHandlers' = depHandlers + 1
  /\ UNCHANGED <<changed, depCalls, varsProxy, varsProposal, varsOps, varsBuild, varsDasd,
                 varsEvents, varsResult, varsShared, varsUnregister, varsCopies>>

\* The handlers the callbacks call for notification n, in registration order.
RECURSIVE DeprecateCallsFor(_, _, _)
DeprecateCallsFor(changes, n, s) ==
  IF s > depHandlers THEN <<>>
  ELSE (IF onDeprecateCalls(changes) THEN <<[s |-> s, n |-> n]>> ELSE <<>>)
       \o DeprecateCallsFor(changes, n, s + 1)

\* A property-change notification of the storage object arrives: the client
\* calls the callbacks registered for its interface with the changes.
PropertiesChanged(iface, changes) ==
  /\ Len(changed) < MaxNotes
  /\ changed' = Append(changed, [iface |-> iface, changes |-> changes, regs |-> depHandlers])
  /\ depCalls' = IF iface = STORAGE_IFACE
                   THEN depCalls \o DeprecateCallsFor(changes, Len(changed) + 1, 1)
                   ELSE depCalls
  /\ UNCHANGED <<depHandlers, varsProxy, varsProposal, varsOps, varsBuild, varsDasd,
                 varsEvents, varsResult, varsShared, varsUnregister, varsCopies>>

NextDeprecate ==
  \/ OnDeprecate
  \/ \E iface \in {STORAGE_IFACE, DASD_MANAGER_IFACE}, changes \in ChangesPool :
       PropertiesChanged(iface, changes)

(***************************************************************************)
(* The unregister closure of DASDManager.deviceEventListener               *)
(***************************************************************************)
\* Faulty variant: the closure removes nothing.
removeEventListenerNothing(ls, obj, signal, s) == ls

\* () => proxy.removeEventListener(signal, action): the listener that this
\* subscription added to the object is removed; the others stay.
removeEventListener(ls, obj, signal, s) ==
  SelectSeq(ls, LAMBDA l : ~(l.obj = obj /\ l.signal = signal /\ l.s = s))

InitUnregister == unregistered = {}

\* The caller of deviceEventListener calls the closure the call resolved to.
Unregister(i) ==
  /\ i \in DOMAIN listeners
  /\ listeners[i].name = "deviceEventListener"
  /\ listeners' = removeEventListener(listeners, listeners[i].obj, listeners[i].signal,
                                      listeners[i].s)
  /\ unregistered' = unregistered \cup
       {[s |-> listeners[i].s, signal |-> listeners[i].signal,
         since |-> listeners[i].since, until |-> dispatched]}
  /\ UNCHANGED <<watched, nsubs, pending, notes, dispatched, handled, varsProxy,
                 varsProposal, varsOps, varsBuild, varsDasd, varsResult, varsShared,
                 varsDeprecate, varsCopies>>

\* Two signals are followed: enough for handlers of the same signal and of
\* another one.
UnregisterSignals == {"changed", "removed"}

NextUnregister ==
  \/ \E m \in {x \in SubscribeMethods : x.signal \in UnregisterSignals} : SubscribeCall(m)
  \/ \E j \in pending : Resume(j)
  \/ \E sg \in UnregisterSignals : \E object \in EventObjects(watched) : Notify(sg, object)
  \/ Dispatch
  \/ \E i \in 1..MaxSubs : Unregister(i)

(***************************************************************************)
(* A format job finishes: onJobChanged and getJobs                         *)
(***************************************************************************)
\* The job collections the service may hold when the client starts.
InitJobs == jobsColl \in JobCollections

\* The service's side: the running job of index i stops running with the
\* given exit code. The cached job object takes the new properties and, if
\* the client has asked for the jobs collection, a "changed" notification
\* about that object arrives.
JobFinishes(i, code) ==
  /\ i \in DOMAIN jobsColl
  /\ jobsColl[i].Running
  /\ jobsColl' = [jobsColl EXCEPT ![i] = [@ EXCEPT !.Running = FALSE, !.ExitCode = code]]
  /\ IF \E h \in DOMAIN handles : handles[h] = "jobs"
       THEN /\ Len(notes) < MaxNotes
            /\ notes' = Append(notes, [object |-> jobsColl'[i], signal |-> "changed"])
       ELSE UNCHANGED notes
  /\ UNCHANGED <<dasdColl, dname, dpc, dsetup, probeState, dret,
                 watched, nsubs, pending, listeners, dispatched, handled,
                 varsProxy, varsProposal, varsOps, varsBuild, varsResult, varsShared, varsDeprecate, varsUnregister, varsCopies>>

NextJobs ==
  \/ \E i \in 1..MaxJobs, code \in {0, 1} : JobFinishes(i, code)
  \/ \E m \in SubscribeMethods : SubscribeCall(m)
  \/ \E j \in pending : Resume(j)
  \/ Dispatch
  \/ DasdCall("getJobs")
  \/ DasdProxyResolve
  \/ DasdReturn

(***************************************************************************)
(* Returned value objects and later changes of the cached remote objects   *)
(***************************************************************************)
\* A JavaScript reference to an array object.
Ref(id) == [js |-> "ref", id |-> id]

\* The contents the CandidateDevices property may take.
CandidateLists == {<<>>, <<"/dev/sda">>, <<"/dev/sda", "/dev/sdb">>}

InitCopies ==
  /\ heap = <<Arr(<<"/dev/sda">>)>>
  /\ candRef = 1
  /\ returned = <<>>

\* The proposal proxy: its CandidateDevices property holds an array object.
ProposalObject == [ExportedProposal EXCEPT !.CandidateDevices = Ref(candRef)]

ValueKinds == {"Result", "DASDDevice"}

\* What getResult and DASDManager.getDevices build from the cached objects.
BuiltValue(kind) ==
  CASE kind = "Result" -> buildResult(ProposalObject)
    [] kind = "DASDDevice" -> dasdGetDevices(dasdColl)

\* A value object as its holder reads it: a reference is followed to the
\* array object it denotes.
Deref(kind, value) ==
  IF kind = "Result"
    THEN [value EXCEPT !.candidateDevices = IF @.js = "ref" THEN heap[@.id] ELSE @]
    ELSE value

\* A call resolves with a value object, which the caller keeps.
ReturnValue(kind) ==
  /\ Len(returned) < NumCallers
  /\ returned' = Append(returned, [value |-> BuiltValue(kind), kind |-> kind,
                                   seen |-> Deref(kind, BuiltValue(kind))])
  /\ UNCHANGED <<heap, candRef, varsProxy, varsProposal, varsOps, varsBuild, varsDasd,
                 varsEvents, varsResult, varsShared, varsDeprecate, varsUnregister>>

\* A notification changes CandidateDevices of the cached proposal proxy: the
\* cache either gives the property a new array object or updates the array
\* object it holds.
CandidateDevicesChange(list, inPlace) ==
  /\ heap[candRef] # Arr(list)
  /\ IF inPlace
       THEN /\ heap' = [heap EXCEPT ![candRef] = Arr(list)]
            /\ UNCHANGED candRef
       ELSE /\ Len(heap) < MaxCalls
            /\ heap' = Append(heap, Arr(list))
            /\ candRef' = Len(heap) + 1
  /\ UNCHANGED <<returned, varsProxy, varsProposal, varsOps, varsBuild, varsDasd,
                 varsEvents, varsResult, varsShared, varsDeprecate, varsUnregister>>

\* A notification or enumeration changes the cached DASD devices.
DevicesChange(devices) ==
  /\ dasdColl # devices
  /\ dasdColl' = devices
  /\ UNCHANGED <<jobsColl, dname, dpc, dsetup, probeState, dret, varsCopies,
                 varsProxy, varsProposal, varsOps, varsBuild,
                 varsEvents, varsResult, varsShared, varsDeprecate, varsUnregister>>

NextCopies ==
  \/ \E kind \in ValueKinds : ReturnValue(kind)
  \/ \E list \in CandidateLists, inPlace \in BOOLEAN : CandidateDevicesChange(list, inPlace)
  \/ \E enabled \in BOOLEAN : DevicesChange(<<DasdObject("e", enabled)>>)

(***************************************************************************)
(* Specifications                                                          *)
(***************************************************************************)
NextProxy ==
  \/ \E c \in Callers, k \in ProxyKeys : GetterCall(c, k)
  \/ \E c \in Callers : GetterResolve(c)
  \/ \E c \in Callers : GetterReject(c)
  \/ \E c \in Callers : GetterReturn(c)

InitMore ==
  /\ InitBuild
  /\ InitDasd
  /\ InitEventsIdle
  /\ InitResult
  /\ InitShared
  /\ InitDeprecate
  /\ InitUnregister
  /\ InitCopies

InitProxy ==
  /\ InitManagers
  /\ InitGetters
  /\ InitProposal
  /\ InitOps
  /\ InitMore
  /\ dbusObjects = <<>>
  /\ availDevices = <<>>

SpecProxy == InitProxy /\ [][NextProxy]_vars

InitProposalSpec ==
  /\ InitManagers
  /\ InitGetters
  /\ InitProposal
  /\ InitOps
  /\ InitMore
  /\ \E ix \in Enumerations : dbusObjects = [i \in DOMAIN ix |-> ObjectPool[ix[i]]]
  /\ availDevices \in PathLists

SpecProposal == InitProposalSpec /\ [][NextProposal]_vars

SpecOps == InitProxy /\ [][NextOps]_vars

SpecPayload == InitProxy /\ [][NextPayload]_vars

SpecDevices == InitProxy /\ [][NextDevices]_vars

SpecDasd == InitProxy /\ [][NextDasd]_vars

InitEventsSpec ==
  /\ InitManagers
  /\ InitGetters
  /\ InitProposal
  /\ InitOps
  /\ InitBuild
  /\ InitDasd
  /\ InitEvents
  /\ InitResult
  /\ InitShared
  /\ InitDeprecate
  /\ InitUnregister
  /\ InitCopies
  /\ dbusObjects = <<>>
  /\ availDevices = <<>>

SpecEvents == InitEventsSpec /\ [][NextEvents]_vars

SpecResult == InitProxy /\ [][NextResult]_vars

SpecShared == InitProxy /\ [][NextShared]_vars

SpecDeprecate == InitProxy /\ [][NextDeprecate]_vars

\* The subscriptions to the DASD devices, with their unregister closures.
InitUnregisterSpec ==
  /\ InitEventsSpec
  /\ watched = "devices"

SpecUnregister == InitUnregisterSpec /\ [][NextUnregister]_vars

\* The jobs of the DASD manager, with the subscriptions to them.
InitJobsSpec ==
  /\ InitManagers
  /\ InitGetters
  /\ InitProposal
  /\ InitOps
  /\ InitBuild
  /\ InitJobs
  /\ dasdColl = <<>>
  /\ dname = "none"
  /\ dpc = "idle"
  /\ dsetup = 0
  /\ probeState = "none"
  /\ dret = Undefined
  /\ InitEventsIdle
  /\ InitResult
  /\ InitShared
  /\ InitDeprecate
  /\ InitUnregister
  /\ InitCopies
  /\ dbusObjects = <<>>
  /\ availDevices = <<>>

SpecJobs == InitJobsSpec /\ [][NextJobs]_vars

SpecCopies == InitProxy /\ [][NextCopies]_vars

Init == InitProposalSpec

Next == NextProxy \/ NextProposal \/ NextOps \/ NextPayload \/ NextDevices \/ NextDasd \/ NextEvents \/ NextResult \/ NextShared \/ NextDeprecate \/ NextUnregister \/ NextJobs \/ NextCopies

Spec == Init /\ [][Next]_vars

(***************************************************************************)
(* Claims                                                                  *)
(***************************************************************************)

\* C1 (as claimed): a first-time call of a dynamic-collection getter that
\* starts while another call's setup for the same collection is still being
\* awaited creates no subscription of its own and ends up with the proxies
\* object of that setup.
C1_ConcurrentFirstCallsShareOneSubscription ==
  \A c \in Callers :
    (tasks[c].pc # "idle" /\ tasks[c].key \in CollectionKeys /\ tasks[c].inflight # 0)
      => /\ ~tasks[c].setup
         /\ tasks[c].pc = "done" => tasks[c].ret = tasks[c].inflight

\* C2 (as claimed): a getter call that starts after a first call for the same
\* key has completed successfully returns the proxy that first call
\* returned and performs no setup.
C2_LaterCallsReturnTheFirstProxy ==
  \A c \in Callers :
    (tasks[c].pc = "done" /\ tasks[c].first # 0)
      => (tasks[c].ret = tasks[c].first /\ ~tasks[c].setup)

\* C3: when the proposal object is not exported, so that acquiring its proxy
\* fails, getResult resolves to undefined (it does not reject), and getData
\* resolves with result undefined.
C3_ResultAbsentWhenProposalNotExported ==
  (pcall \in {"getResult", "getData"} /\ proxyFailed)
    => /\ ppc = "resolved"
       /\ IF pcall = "getData" THEN pret.result = Undefined ELSE pret = Undefined

C3_Witness ==
  /\ pcall = "getData"
  /\ proxyFailed
  /\ ppc = "resolved"
  /\ pret.result = Undefined
  /\ pret.volumeTemplates # Undefined

\* The part of a path after its last "/".
LastSegment(p) ==
  LET I == {i \in 1..Len(p) : p[i] = "/"}
      k == IF I = {} THEN 0 ELSE CHOOSE i \in I : \A j \in I : j <= i
  IN SubSeq(p, k + 1, Len(p))

HasDevice(p) == \E j \in DOMAIN systemDevices : systemDevices[j].sid = LastSegment(p)

HasNoDevice(p) == ~HasDevice(p)

\* getAvailableDevices has produced its value (on its own or within getData).
AvailableDevicesDone ==
  \/ pcall = "getAvailableDevices" /\ ppc = "resolved"
  \/ pcall = "getData" /\ data.availableDevices # Undefined

AvailableDevicesValue == IF pcall = "getData" THEN data.availableDevices.a ELSE pret.a

\* C5: getAvailableDevices returns one device of the snapshot for each path
\* of the calculator's list that has a device with the path's last segment
\* as sid, in the order of the calculator's list, and nothing for the paths
\* without such a device.
C5_AvailableDevicesInCalculatorOrder ==
  AvailableDevicesDone =>
    LET matched == SelectSeq(availDevices, HasDevice)
        value == AvailableDevicesValue
    IN /\ Len(value) = Len(matched)
       /\ \A i \in 1..Len(value) :
            /\ \E j \in DOMAIN systemDevices : systemDevices[j] = value[i]
            /\ value[i].sid = LastSegment(matched[i])

\* Paths [A, X, C] with snapshot {A, C} give [device(A), device(C)].
C5_Witness ==
  /\ pcall = "getAvailableDevices"
  /\ ppc = "resolved"
  /\ availDevices = << <<"/", "s", "/", "a">>, <<"/", "s", "/", "x">>, <<"/", "s", "/", "c">> >>
  /\ Len(pret.a) = 2
  /\ pret.a[1].sid = <<"a">>
  /\ pret.a[2].sid = <<"c">>

\* C6: once the snapshot and the calculator proxy are there, getAvailableDevices
\* does not fail: it logs each path that has no device, in order, drops it,
\* and goes on with the remaining devices.
C6_MissingDeviceIsLoggedAndDropped ==
  [][(ppc = "calcAvail" /\ calcProxy = "resolved" /\ ppc' # ppc)
       => /\ ppc' = IF pcall = "getData" THEN "calcTemplates" ELSE "resolved"
          /\ log' = SelectSeq(availDevices, HasNoDevice)
          /\ LET value == IF pcall = "getData" THEN data'.availableDevices.a ELSE pret'.a
             IN Len(value) = Len(availDevices) - Len(log')]_vars

C6_Witness ==
  /\ pcall = "getAvailableDevices"
  /\ ppc = "resolved"
  /\ Len(log) = 2
  /\ Len(pret.a) = 1

\* C4 (as claimed): when the acquisition of the DASD manager proxy fails,
\* isSupported resolves to false instead of rejecting.
C4_IsSupportedFalseWhenManagerMissing ==
  (oname = "isSupported" /\ acquireFailed)
    => (opc = "resolved" /\ oret = Bool(FALSE))

\* calculate has passed its settings payload to the remote Calculate method.
CalculateSent == oname = "calculate" /\ sent # <<>>

SettingsKeys ==
  [candidateDevices |-> "CandidateDevices", lvm |-> "LVM",
   encryptionPassword |-> "EncryptionPassword", volumes |-> "Volumes"]

IsUndefined(v) == v = Undefined

IsNullish(v) == v = Undefined \/ v = Null

\* A settings field is a key of the payload exactly when it is not absent.
KeysFollowFields(p, args, Absent(_)) ==
  \A f \in DOMAIN SettingsKeys : (SettingsKeys[f] \in DOMAIN p) <=> ~Absent(args[f])

\* C7 (as claimed, absent read as undefined or as undefined-or-null): every
\* settings field is a key of the payload of calculate exactly when its value
\* is not absent.
C7_SettingsKeysFollowPresentFields ==
  CalculateSent =>
    LET p == sent[1].args[1]
    IN \/ KeysFollowFields(p, oargs, IsUndefined)
       \/ KeysFollowFields(p, oargs, IsNullish)

\* C7 (amended): in the payload of calculate, CandidateDevices,
\* EncryptionPassword and LVM are keys exactly when the settings field is not
\* undefined, with the field's value (false and null included); Volumes is a
\* key exactly when settings.volumes is neither undefined nor null.
C7_SettingsKeysFollowDefinedFields ==
  CalculateSent =>
    LET p == sent[1].args[1]
    IN /\ \A f \in {"candidateDevices", "encryptionPassword", "lvm"} :
            /\ (SettingsKeys[f] \in DOMAIN p) <=> (oargs[f] # Undefined)
            /\ (SettingsKeys[f] \in DOMAIN p) => p[SettingsKeys[f]].v = oargs[f]
       /\ ("Volumes" \in DOMAIN p) <=> ~IsNullish(oargs.volumes)
       /\ (oargs.encryptionPassword = Undefined) => "EncryptionPassword" \notin DOMAIN p
       /\ (oargs.lvm = Bool(FALSE)) => ("LVM" \in DOMAIN p /\ p["LVM"].v = Bool(FALSE))

\* encryptionPassword is undefined and lvm is false: no EncryptionPassword key,
\* an LVM key with value false.
C7_Witness ==
  /\ CalculateSent
  /\ oargs.encryptionPassword = Undefined
  /\ oargs.lvm = Bool(FALSE)
  /\ "EncryptionPassword" \notin DOMAIN sent[1].args[1]
  /\ sent[1].args[1]["LVM"].v = Bool(FALSE)

\* The payloads of the call: the last argument of Calculate, Discover and Login,
\* and the volumes nested in the settings of Calculate.
PayloadSent == oname \in {"calculate", "discover", "login"} /\ sent # <<>>

TopPayload == sent[1].args[Len(sent[1].args)]

NestedPayloads ==
  IF oname = "calculate" /\ "Volumes" \in DOMAIN TopPayload
    THEN {TopPayload["Volumes"].v.a[i] : i \in DOMAIN TopPayload["Volumes"].v.a}
    ELSE {}

\* The input object of each payload field, and the field's key in the payload.
OptionKeys ==
  [username |-> "Username", password |-> "Password",
   reverseUsername |-> "ReverseUsername", reversePassword |-> "ReversePassword",
   startup |-> "Startup"]

VolumeKeys ==
  [mountPoint |-> "MountPoint", encrypted |-> "Encrypted", fixedSizeLimits |-> "FixedSizeLimits",
   minSize |-> "MinSize", maxSize |-> "MaxSize", fsType |-> "FsType",
   snapshots |-> "Snapshots"]

\* C8 (as claimed): no payload of calculate (settings and nested volumes),
\* discover or login has a key whose value is undefined or null.
C8_NoAbsentValueInPayloads ==
  PayloadSent =>
    \A p \in {TopPayload} \cup NestedPayloads :
      \A k \in DOMAIN p : ~IsNullish(p[k].v)

\* The input fields of a payload are omitted when undefined, kept otherwise.
UndefinedOmitted(p, input, Keys) ==
  \A f \in DOMAIN input :
    /\ (input[f] = Undefined) => Keys[f] \notin DOMAIN p
    /\ (input[f] # Undefined) => (Keys[f] \in DOMAIN p /\ p[Keys[f]].v = input[f])

\* C8 (amended): no payload of calculate (settings and nested volumes),
\* discover or login has a key whose value is undefined: a field that is
\* undefined in the input is omitted; a field that is null in the input is
\* kept and sent as null, except settings.volumes, which is omitted.
C8_NoUndefinedValueInPayloads ==
  PayloadSent =>
    /\ \A p \in {TopPayload} \cup NestedPayloads : \A k \in DOMAIN p : p[k].v # Undefined
    /\ oname \in {"discover", "login"} => UndefinedOmitted(TopPayload, oargs.options, OptionKeys)
    /\ oname = "calculate" =>
         /\ UndefinedOmitted(TopPayload,
              [f \in {"candidateDevices", "encryptionPassword", "lvm"} |-> oargs[f]],
              SettingsKeys)
         /\ IsNullish(oargs.volumes) => "Volumes" \notin DOMAIN TopPayload
         /\ ~IsNullish(oargs.volumes) =>
              /\ "Volumes" \in DOMAIN TopPayload
              /\ \A i \in DOMAIN oargs.volumes.a :
                   UndefinedOmitted(TopPayload["Volumes"].v.a[i], oargs.volumes.a[i], VolumeKeys)

\* login with an undefined password and a null startup: Password is no key,
\* Startup is a key with value null.
C8_Witness ==
  /\ oname = "login"
  /\ sent # <<>>
  /\ oargs.options.password = Undefined
  /\ oargs.options.startup = Null
  /\ "Password" \notin DOMAIN TopPayload
  /\ TopPayload["Startup"].v = Null

\* C9: calculate, discover, login, logout and delete resolve to the integer
\* code the remote method returned, whatever it is.
C9_ResultCodeIsReturnedVerbatim ==
  (oname \in {"calculate", "discover", "login", "logout", "delete"} /\ opc = "resolved")
    => (remote = "returned" /\ oret = Num(remoteRet))

C9_Witness ==
  /\ oname = "delete"
  /\ opc = "resolved"
  /\ remoteRet = 2
  /\ oret = Num(2)

\* C10: a call of an operation issues its remote method invocation at most
\* once, also after a nonzero code or a failure of the remote method.
C10_AtMostOneRemoteInvocation ==
  /\ Len(sent) <= 1
  /\ sent # <<>> => sent[1].method = OpMethod(oname)

C10_Witness ==
  /\ oname = "calculate"
  /\ opc = "resolved"
  /\ remote = "returned"
  /\ remoteRet = 1
  /\ Len(sent) = 1

\* An enumerated object lies under the system root "/s".
InSystem(o) == Len(o.path) > 3 /\ SubSeq(o.path, 1, 3) = <<"/", "s", "/">>

\* The device getDevices built for the enumerated object at position i.
BuiltFor(i) ==
  fdevices.a[Cardinality({j \in 1..i : InSystem(fobjects[j])})]

\* The enumerated objects under the root, once getDevices has resolved.
BuiltObjects ==
  IF fdevices = Undefined THEN {} ELSE {i \in DOMAIN fobjects : InSystem(fobjects[i])}

Carries(i, iface) == iface \in DOMAIN fobjects[i].ifaces

\* C18: the device built for an object that carries the MD facet has type
\* "md", whatever other facets the object carries and whatever Type its
\* drive facet supplies.
C18_MDFacetDecidesType ==
  \A i \in BuiltObjects :
    Carries(i, MD_IFACE) =>
      /\ BuiltFor(i).sid = LastSegment(fobjects[i].path)
      /\ BuiltFor(i).type = "md"

\* An object with the drive (Type "disk"), MD and block facets is built as "md".
C18_Witness ==
  \E i \in BuiltObjects :
    /\ Carries(i, DRIVE_IFACE) /\ Carries(i, MD_IFACE) /\ Carries(i, BLOCK_IFACE)
    /\ fobjects[i].ifaces[DRIVE_IFACE].Type.v = "disk"
    /\ BuiltFor(i).type = "md"
    /\ BuiltFor(i).vendor = "Micron"

\* C19: the device built for an object under the root that carries none of
\* the five facets has the fields sid and type only, sid being the last
\* segment of the path and type the empty string.
C19_NoFacetGivesBareEntry ==
  \A i \in BuiltObjects :
    (\A f \in Facets : ~Carries(i, f)) =>
      /\ DOMAIN BuiltFor(i) = {"sid", "type"}
      /\ BuiltFor(i).sid = LastSegment(fobjects[i].path)
      /\ BuiltFor(i).type = ""

C19_Witness ==
  \E i \in BuiltObjects :
    /\ \A f \in Facets : ~Carries(i, f)
    /\ fobjects[i].path = <<"/", "s", "/", "b">>
    /\ BuiltFor(i) = [type |-> "", sid |-> <<"b">>]

\* The fields a facet supplies, with the device field each goes to.
DriveFields(p) ==
  [type |-> p.Type.v, vendor |-> p.Vendor.v, model |-> p.Model.v, driver |-> p.Driver.v,
   bus |-> p.Bus.v, transport |-> p.Transport.v, sdCard |-> p.Info.v.SDCard.v,
   dellBOSS |-> p.Info.v.DellBOSS.v]

BlockFields(p) ==
  [active |-> p.Active.v, name |-> p.Name.v, size |-> p.Size.v, systems |-> p.Systems.v,
   udevIds |-> p.UdevIds.v, udevPaths |-> p.UdevPaths.v]

HasFields(d, fields) == \A f \in DOMAIN fields : f \in DOMAIN d /\ d[f] = fields[f]

\* C20 (as claimed): the device built for an object with a drive facet and a
\* block facet has every field of both facets, each with the value its own
\* facet supplied.
C20_DriveAndBlockFieldsKept ==
  \A i \in BuiltObjects :
    (Carries(i, DRIVE_IFACE) /\ Carries(i, BLOCK_IFACE)) =>
      /\ HasFields(BuiltFor(i), DriveFields(fobjects[i].ifaces[DRIVE_IFACE]))
      /\ HasFields(BuiltFor(i), BlockFields(fobjects[i].ifaces[BLOCK_IFACE]))

\* C20 (amended): the device built for an object with a drive facet and a
\* block facet has every field of both facets, each with the value its own
\* facet supplied, except that type is "md" when the object carries the MD
\* facet as well.
C20_DriveAndBlockFieldsKeptButMDType ==
  \A i \in BuiltObjects :
    (Carries(i, DRIVE_IFACE) /\ Carries(i, BLOCK_IFACE)) =>
      LET drive == DriveFields(fobjects[i].ifaces[DRIVE_IFACE])
          expected == IF Carries(i, MD_IFACE) THEN [drive EXCEPT !.type = "md"] ELSE drive
      IN /\ HasFields(BuiltFor(i), expected)
         /\ HasFields(BuiltFor(i), BlockFields(fobjects[i].ifaces[BLOCK_IFACE]))

\* A drive of Type "raid" with a block facet and a partition table.
C20_Witness ==
  \E i \in BuiltObjects :
    /\ Carries(i, DRIVE_IFACE) /\ Carries(i, BLOCK_IFACE) /\ Carries(i, PTABLE_IFACE)
    /\ ~Carries(i, MD_IFACE)
    /\ BuiltFor(i).type = "raid"
    /\ BuiltFor(i).name = "/dev/sda"
    /\ BuiltFor(i).partitionTable.type = "gpt"

\* The operations that take a list of DASD devices.
DasdDeviceOps == {"format", "setDIAG", "enableDevices", "disableDevices"}

\* C16: format, setDIAG, enableDevices and disableDevices invoke their remote
\* method with the paths "<DASD devices namespace>/<id>" of the given
\* devices, one per device, in the order of the input list (setDIAG with the
\* value next to them).
C16_DevicesDispatchedAsPaths ==
  (oname \in DasdDeviceOps /\ sent # <<>>) =>
    LET paths == sent[1].args[1]
    IN /\ sent[1].method = OpMethod(oname)
       /\ Len(paths) = Len(oargs.devices)
       /\ \A i \in DOMAIN paths : paths[i] = <<"/", "d", "/">> \o oargs.devices[i].id
       /\ Len(sent[1].args) = IF oname = "setDIAG" THEN 2 ELSE 1
       /\ oname = "setDIAG" => sent[1].args[2] = oargs.value

\* setDIAG of the devices 9 and 8, in this order.
C16_Witness ==
  /\ oname = "setDIAG"
  /\ sent # <<>>
  /\ sent[1].method = "SetDiag"
  /\ sent[1].args[1] = << <<"/", "d", "/", "9">>, <<"/", "d", "/", "8">> >>
  /\ sent[1].args[2] = TRUE

\* C17: once format, setDIAG, enableDevices or disableDevices has invoked its
\* remote method, the call is resolved with undefined, whether the remote
\* method is still running, has returned or has failed.
C17_DasdDeviceOpsFireAndForget ==
  (oname \in DasdDeviceOps /\ sent # <<>>) =>
    /\ opc = "resolved"
    /\ oret = Undefined

\* The remote Format failed and format is resolved all the same.
C17_Witness ==
  /\ oname = "format"
  /\ remote = "failed"
  /\ opc = "resolved"
  /\ oret = Undefined

\* C11: when getJobs reads the jobs collection, whatever its state, the call
\* resolves with exactly the running jobs of that state: no entry of the
\* result is a finished job, and every running job has its entry.
C11_GetJobsOnlyRunning ==
  [][(dname = "getJobs" /\ dpc = "jobsProxy" /\ dpc' = "resolved") =>
       LET result == dret'.a
       IN /\ \A i \in DOMAIN result :
               \E j \in DOMAIN jobsColl :
                 /\ jobsColl[j].Running
                 /\ result[i].path = jobsColl[j].path
                 /\ result[i].running = TRUE
          /\ \A j \in DOMAIN jobsColl :
               jobsColl[j].Running =>
                 \E i \in DOMAIN result :
                   /\ result[i].path = jobsColl[j].path
                   /\ result[i].exitCode = jobsColl[j].ExitCode
          /\ Len(result) = Cardinality({j \in DOMAIN jobsColl : jobsColl[j].Running})]_vars

\* getJobs has resolved with one job while the collection holds a finished
\* job before the running one.
C11_Witness ==
  /\ dname = "getJobs"
  /\ dpc = "resolved"
  /\ Len(jobsColl) = 2
  /\ ~jobsColl[1].Running
  /\ jobsColl[2].Running
  /\ dret = Arr(<<buildJob(jobsColl[2])>>)

\* C15: getDevices reads the devices collection only when the remote Probe
\* of the call has returned, and resolves with the devices built from the
\* collection as probing left it.
C15_ProbeBeforeDevicesRead ==
  [][(dname = "getDevices" /\ dpc = "devicesProxy" /\ dpc' = "resolved") =>
       /\ probeState = "returned"
       /\ dret'.a = [i \in DOMAIN dasdColl |-> dasdBuildDevice(dasdColl[i])]]_vars

\* getDevices has resolved with the two devices the probe found.
C15_Witness ==
  /\ dname = "getDevices"
  /\ dpc = "resolved"
  /\ probeState = "returned"
  /\ Len(dasdColl) = 2
  /\ dret # Undefined
  /\ Len(dret.a) = 2
  /\ dret.a[1].hexId = 415
  /\ dret.a[2].accessType = "offline"

\* The notified object a handler call was made for.
NotifiedObject(call) == notes[call.n].object

\* C12: every handler call receives the value built from the notified object
\* of its notification (the job, the DASD device or the node built from it,
\* or its format summary), and never the notified proxy itself.
C12_HandlersGetRebuiltValues ==
  \A i \in DOMAIN handled :
    LET proxy == NotifiedObject(handled[i])
    IN /\ handled[i].value # proxy
       /\ watched = "jobs" =>
            handled[i].value =
              [path |-> proxy.path, running |-> proxy.Running, exitCode |-> proxy.ExitCode]
       /\ watched = "devices" =>
            /\ handled[i].value = dasdBuildDevice(proxy)
            /\ handled[i].value.id = LastSegment(proxy.path)
            /\ DOMAIN handled[i].value =
                 {"id", "accessType", "channelId", "diag", "enabled", "formatted",
                  "hexId", "name", "partitionInfo", "status", "type"}
       /\ watched = "iscsiNodes" =>
            /\ handled[i].value.id = LastSegment(proxy.path)
            /\ handled[i].value.target = proxy.Target
            /\ handled[i].value.address = proxy.Address
            /\ handled[i].value.port = proxy.Port
            /\ handled[i].value.interface = proxy.Interface
            /\ handled[i].value.ibft = proxy.IBFT
            /\ handled[i].value.connected = proxy.Connected
            /\ handled[i].value.startup = proxy.Startup
            /\ DOMAIN handled[i].value =
                 {"id", "target", "address", "port", "interface", "ibft", "connected",
                  "startup"}
       /\ watched = "format" => handled[i].value = proxy.Summary

\* A handler registered with deviceEventListener for "removed" has been
\* called with the device built from the removed object.
C12_Witness ==
  /\ watched = "devices"
  /\ handled # <<>>
  /\ notes[handled[1].n].signal = "removed"
  /\ handled[1].value.id = <<"f">>
  /\ handled[1].value.accessType = "offline"

\* The calls of handler s made for notification n.
CallsOf(s, n) == {i \in DOMAIN handled : handled[i].s = s /\ handled[i].n = n}

\* C13: a handler registered by one subscription call has, for every
\* dispatched notification, been called exactly once if the notification is
\* of its signal and came after its listener was added, and not at all
\* otherwise, however many other subscriptions to the collection there are.
C13_HandlerCalledOncePerNotification ==
  /\ \A l \in DOMAIN listeners : \A n \in 1..dispatched :
       Cardinality(CallsOf(listeners[l].s, n)) =
         IF notes[n].signal = listeners[l].signal /\ n > listeners[l].since THEN 1 ELSE 0
  /\ \A i \in DOMAIN handled : \E l \in DOMAIN listeners : listeners[l].s = handled[i].s

\* Two subscriptions to the nodes' "added" signal were set up concurrently, on
\* two different objects, and each handler has been called once for the one
\* notification.
C13_Witness ==
  /\ watched = "iscsiNodes"
  /\ Len(listeners) = 2
  /\ listeners[1].obj # listeners[2].obj
  /\ listeners[1].signal = "added"
  /\ listeners[2].signal = "added"
  /\ dispatched = 1
  /\ Len(handled) = 2
  /\ handled[1].s # handled[2].s

\* C14: the handler calls are made in the order the notifications arrived,
\* each within the dispatch of its notification: the calls for a
\* notification are all made before any call for a later one.
C14_HandlersRunInArrivalOrder ==
  /\ \A i, j \in DOMAIN handled : i < j => handled[i].n <= handled[j].n
  /\ \A i \in DOMAIN handled : handled[i].n <= dispatched
  /\ \A n \in 1..dispatched : \A l \in DOMAIN listeners :
       (notes[n].signal = listeners[l].signal /\ n > listeners[l].since) =>
         CallsOf(listeners[l].s, n) # {}

\* Two notifications were waiting to be dispatched; both have been, the
\* handlers were called for the first and then for the second.
C14_Witness ==
  /\ Len(notes) = 2
  /\ dispatched = 2
  /\ Len(handled) >= 3
  /\ handled[1].n = 1
  /\ handled[Len(handled)].n = 2

\* The volumes a resolved call built, each with the wire volume it was built from.
BuiltVolumes ==
  LET Pairs(wire, built) == {<<wire[i], built.a[i]>> : i \in DOMAIN wire}
  IN IF ppc # "resolved" THEN {}
     ELSE CASE pcall = "getVolumeTemplates" -> Pairs(VolumeTemplates, pret)
            [] pcall = "getResult" ->
                 IF pret = Undefined THEN {}
                 ELSE Pairs(ExportedProposal.Volumes, pret.volumes)
            [] pcall = "getData" ->
                 Pairs(VolumeTemplates, pret.volumeTemplates) \cup
                 (IF pret.result = Undefined THEN {}
                  ELSE Pairs(ExportedProposal.Volumes, pret.result.volumes))
            [] OTHER -> {}

\* The built list is a sequence: empty if the wire field is absent, else the
\* unwrapped wire values in wire order.
ListFollowsWire(wire, field, list) ==
  /\ list.js = "array"
  /\ IF field \in DOMAIN wire
       THEN /\ Len(list.a) = Len(wire[field].v.a)
            /\ \A i \in DOMAIN list.a : list.a[i] = wire[field].v.a[i].v
       ELSE list.a = <<>>

\* C21: in every volume built by getVolumeTemplates or getResult, fsTypes and
\* sizeRelevantVolumes are sequences: empty when the wire volume has no such
\* field, never null or undefined, else the unwrapped values in wire order.
C21_ListFieldsAreSequences ==
  \A p \in BuiltVolumes :
    /\ ListFollowsWire(p[1], "FsTypes", p[2].fsTypes)
    /\ ListFollowsWire(p[1], "SizeRelevantVolumes", p[2].sizeRelevantVolumes)

\* getResult has built a volume with two file system types and a volume
\* whose wire data has neither list.
C21_Witness ==
  /\ pcall = "getResult"
  /\ ppc = "resolved"
  /\ pret # Undefined
  /\ pret.volumes.a[1].fsTypes = Arr(<<Str("Btrfs"), Str("Ext3")>>)
  /\ pret.volumes.a[2].fsTypes = Arr(<<>>)
  /\ pret.volumes.a[2].sizeRelevantVolumes = Arr(<<>>)

\* C22: the devices getDevices returned are those of the enumerated objects
\* whose path is a descendant of the root path, one each, in enumeration
\* order; no other enumerated object has a device.
C22_OnlyObjectsUnderRootInOrder ==
  ppc = "calcAvail" =>
    LET under == SelectSeq(dbusObjects, InSystem)
    IN /\ Len(systemDevices) = Len(under)
       /\ \A i \in DOMAIN under : systemDevices[i].sid = LastSegment(under[i].path)

\* C30: a getResult call resolves by what the service exports when the
\* proposal proxy it asked for settles, whatever earlier calls returned: with
\* undefined if no proposal is exported, else with the Result built from the
\* exported proposal.
C30_ResultFollowsExportedProposal ==
  [][\A c \in Callers :
       (rtasks[c].pc = "proposalProxy" /\ rtasks'[c].pc # "proposalProxy") =>
         /\ rtasks'[c].pc = "done"
         /\ ~proposalExported => rtasks'[c].ret = Undefined
         /\ proposalExported =>
              /\ rtasks'[c].ret # Undefined
              /\ rtasks'[c].ret.candidateDevices = ExportedProposal.CandidateDevices
              /\ rtasks'[c].ret.lvm = ExportedProposal.LVM
              /\ rtasks'[c].ret.encryptionPassword = ExportedProposal.EncryptionPassword
              /\ Len(rtasks'[c].ret.volumes.a) = Len(ExportedProposal.Volumes)
              /\ rtasks'[c].ret.volumes.a[1].mountPoint = Str("/")
              /\ Len(rtasks'[c].ret.actions.a) = Len(ExportedProposal.Actions)
              /\ rtasks'[c].ret.actions.a[1].text = ExportedProposal.Actions[1].Text.v]_vars

\* A caller whose previous getResult returned undefined has a Result now.
C30_Witness ==
  \E c \in Callers :
    /\ rtasks[c].prev = "absent"
    /\ rtasks[c].pc = "done"
    /\ rtasks[c].ret # Undefined
    /\ rtasks[c].ret.lvm = Bool(TRUE)

\* C24: a manager has no connection handle until one of its getters first
\* calls client(); from then on it has exactly one, which every later call
\* of client() returns and which is never dropped.
C24_OneLazyConnectionPerManager ==
  \A m \in Managers :
    LET used == \E h \in DOMAIN handles : ManagerOf(handles[h]) = m
    IN /\ clients[m] = IF used THEN 1 ELSE 0
       /\ mclient[m] = clients[m]

\* The DASD manager has called client() for three setups and has one
\* connection; the iSCSI manager, never used, has none.
C24_Witness ==
  /\ Len(handles) = 3
  /\ \A h \in DOMAIN handles : ManagerOf(handles[h]) = "dasd"
  /\ clients["dasd"] = 1
  /\ clients["iscsi"] = 0

\* C28: the rejection of an awaited setup reaches the caller and stores
\* nothing; a key of this.proxies is only ever set to the handle of a setup
\* that resolved, and a getter called while its key is unset starts a new setup.
C28_FailedSetupIsNotCached ==
  [][/\ \A c \in Callers :
          (tasks[c].pc = "awaiting" /\ tasks'[c].pc = "rejected") => proxies' = proxies
     /\ \A k \in ProxyKeys :
          proxies'[k] # proxies[k] =>
            \E c \in Callers :
              /\ tasks[c].pc = "awaiting"
              /\ tasks[c].key = k
              /\ tasks'[c].pc = "done"
              /\ proxies'[k] = tasks[c].h
     /\ \A c \in Callers :
          (tasks[c].pc = "idle" /\ tasks'[c].pc # "idle" /\ proxies[tasks'[c].key] = 0) =>
            /\ tasks'[c].pc = "awaiting"
            /\ tasks'[c].h = Len(handles) + 1
            /\ handles' = Append(handles, tasks'[c].key)]_vars

\* A setup was rejected; with no other setup of the key in flight, the next
\* call of the getter has started a new one.
C28_Witness ==
  \E c, d \in Callers :
    /\ tasks[c].pc = "rejected"
    /\ tasks[d].pc = "awaiting"
    /\ tasks[d].key = tasks[c].key
    /\ tasks[d].h > tasks[c].h
    /\ tasks[d].inflight = 0
    /\ proxies[tasks[c].key] = 0

\* C29: client.proxy was called once for the calculator and once for the
\* storage object, by the constructors, and every call of a method that
\* needs one of them awaits that one acquisition, pending or settled.
C29_ConstructorAcquisitionIsShared ==
  /\ \A k \in SharedKeys :
       Cardinality({i \in DOMAIN acquisitions : acquisitions[i].key = k}) = 1
  /\ \A c \in Callers :
       stasks[c].pc \in {"awaiting", "done", "rejected"} =>
         /\ stasks[c].awaits \in DOMAIN acquisitions
         /\ acquisitions[stasks[c].awaits].key = SharedKeyOf(stasks[c].name)
         /\ \A d \in Callers :
              (stasks[d].pc \in {"awaiting", "done", "rejected"}
               /\ SharedKeyOf(stasks[d].name) = SharedKeyOf(stasks[c].name)) =>
                stasks[d].awaits = stasks[c].awaits

\* calculate and getVolumeTemplates, called before the calculator proxy has
\* settled, both await the one acquisition of the constructor.
C29_Witness ==
  \E c, d \in Callers :
    /\ stasks[c].name = "calculate"
    /\ stasks[c].pc = "awaiting"
    /\ stasks[d].name = "getVolumeTemplates"
    /\ stasks[d].pc = "awaiting"
    /\ stasks[c].awaits = stasks[d].awaits
    /\ acquisitions[stasks[c].awaits].state = "pending"

\* The calls of handler s made for notification n.
DeprecateCallsOf(s, n) == {i \in DOMAIN depCalls : depCalls[i].s = s /\ depCalls[i].n = n}

\* C27: a handler registered with onDeprecate has been called once for every
\* later notification of the storage interface whose changes carry
\* DeprecatedSystem with the value true, and for no other notification.
C27_DeprecateHandlerRunsOnTrueOnly ==
  /\ \A n \in DOMAIN changed : \A s \in 1..depHandlers :
       Cardinality(DeprecateCallsOf(s, n)) =
         IF /\ s <= changed[n].regs
            /\ changed[n].iface = STORAGE_IFACE
            /\ "DeprecatedSystem" \in DOMAIN changed[n].changes
            /\ changed[n].changes["DeprecatedSystem"].v = Bool(TRUE)
           THEN 1 ELSE 0
  /\ \A i \in DOMAIN depCalls :
       depCalls[i].n \in DOMAIN changed /\ depCalls[i].s \in 1..depHandlers

\* One handler; DeprecatedSystem changed to false and then to true: the
\* handler was called for the second notification only.
C27_Witness ==
  /\ depHandlers = 1
  /\ Len(changed) = 2
  /\ changed[1].regs = 1
  /\ changed[1].iface = STORAGE_IFACE
  /\ changed[1].changes = ("DeprecatedSystem" :> Variant("b", Bool(FALSE)))
  /\ changed[2].iface = STORAGE_IFACE
  /\ changed[2].changes = ("DeprecatedSystem" :> Variant("b", Bool(TRUE)))
  /\ depCalls = <<[s |-> 1, n |-> 2]>>

\* C26: a handler whose unregister closure was called has been called once
\* for every notification of its signal dispatched between its registration
\* and the call of the closure, and never for a later one; the handlers still
\* registered have been called for every notification of their signal since
\* their registration.
C26_UnregisteredHandlerIsNotCalledAgain ==
  /\ \A u \in unregistered : \A n \in 1..dispatched :
       Cardinality(CallsOf(u.s, n)) =
         IF notes[n].signal = u.signal /\ u.since < n /\ n <= u.until THEN 1 ELSE 0
  /\ \A l \in DOMAIN listeners : \A n \in 1..dispatched :
       Cardinality(CallsOf(listeners[l].s, n)) =
         IF notes[n].signal = listeners[l].signal /\ n > listeners[l].since THEN 1 ELSE 0

\* Two handlers for the same signal were called for the first notification;
\* the closure of one was called, and only the other handler was called for
\* the second notification.
C26_Witness ==
  /\ dispatched = 2
  /\ notes[1].signal = notes[2].signal
  /\ Len(listeners) = 1
  /\ listeners[1].signal = notes[1].signal
  /\ \E u \in unregistered :
       /\ u.signal = notes[1].signal
       /\ u.until = 1
       /\ CallsOf(u.s, 1) # {}
       /\ CallsOf(u.s, 2) = {}
  /\ CallsOf(listeners[1].s, 1) # {}
  /\ CallsOf(listeners[1].s, 2) # {}

\* C25: every handler registered with onJobChanged has been called exactly
\* once for each dispatched notification of a job that stopped running which
\* came after its registration, with a Job of that path whose running flag
\* is false and whose exit code is the job's; and a getJobs that reads the
\* collection after such a notification has arrived does not list that job.
C25_FinishedJobIsReportedThenUnlisted ==
  /\ [](\A n \in 1..dispatched :
          (notes[n].signal = "changed" /\ ~notes[n].object.Running) =>
            \A l \in DOMAIN listeners :
              (listeners[l].name = "onJobChanged" /\ listeners[l].since < n) =>
                /\ Cardinality(CallsOf(listeners[l].s, n)) = 1
                /\ \A i \in CallsOf(listeners[l].s, n) :
                     handled[i].value = [path |-> notes[n].object.path,
                                         running |-> FALSE,
                                         exitCode |-> notes[n].object.ExitCode])
  /\ [][(dname = "getJobs" /\ dpc = "jobsProxy" /\ dpc' = "resolved") =>
          \A n \in DOMAIN notes :
            ~notes[n].object.Running =>
              \A i \in DOMAIN dret'.a : dret'.a[i].path # notes[n].object.path]_vars

\* A job failed with exit code 1 while another kept running: the handler of
\* onJobChanged was called with the finished job, and a later getJobs has
\* resolved with the running job only.
C25_Witness ==
  /\ dispatched = 1
  /\ Len(jobsColl) = 2
  /\ notes[1].object = jobsColl[1]
  /\ jobsColl[1].ExitCode = 1
  /\ jobsColl[2].Running
  /\ \E i \in DOMAIN handled :
       /\ handled[i].n = 1
       /\ handled[i].value.running = FALSE
       /\ handled[i].value.exitCode = 1
  /\ dname = "getJobs"
  /\ dpc = "resolved"
  /\ dret = Arr(<<buildJob(jobsColl[2])>>)

\* C23: every value object handed to a caller still reads, field by field,
\* as it read when it was returned, whatever has happened to the cached
\* remote objects since.
C23_ReturnedValuesNeverChange ==
  \A i \in DOMAIN returned :
    Deref(returned[i].kind, returned[i].value) = returned[i].seen

====
